---------------------------- MODULE Spec2Model ----------------------------
(***************************************************************************)
(* A model of the campus map pages of this repository.                     *)
(*                                                                         *)
(*   page "campus-map" : class CampusMap3D with CONFIG and                 *)
(*                       SAMPLE_CAMPUS_DATA (src/README.md, campus-map.js) *)
(*   page "medical"    : class MedicalCampusMap (src/map-config.js) driven *)
(*                       by class CampusMapApp (src/README.md)             *)
(*                                                                         *)
(* Coordinates are [longitude, latitude] pairs held as integers in units   *)
(* of 1e-4 degree (-122.4194 is -1224194).  A JavaScript null/undefined    *)
(* reference is the empty tuple.  Text is a tuple of one-character strings *)
(* wherever the code formats or parses it.                                 *)
(***************************************************************************)
EXTENDS Integers, Sequences, FiniteSets, TLC

VARIABLES
    page,             \* which page (script bundle) the browser has loaded
    location,         \* window.location.search, as a list of <<key, value>>
    campusMap,        \* the CampusMap3D instance
    medicalCampusMap, \* the MedicalCampusMap instance
    campusMapApp,     \* the CampusMapApp instance
    dom,              \* the document's elements the code reads and writes
    map,              \* the mapboxgl.Map: camera, sources, layers, markers
    directions,       \* the MapboxDirections control of CampusMap3D
    geolocation,      \* navigator.geolocation: pending requests and watches
    timers,           \* callbacks scheduled with setTimeout, not yet run
    fetches,          \* directions requests in flight
    alerted,          \* the text of the last alert() shown, "" if none
    console,          \* the text of the last console.error() call, "" if none
    call,             \* the last call of a method that returns or looks up a
                      \* value: its name, argument and result
    shared            \* what the last share link shown was made from

vars == <<page, location, campusMap, medicalCampusMap, campusMapApp, dom, map,
          directions, geolocation, timers, fetches, alerted, console, call,
          shared>>

Null == <<>>

-----------------------------------------------------------------------------
(* Bounds of the model.                                                    *)

\* getCurrentPosition requests that may be pending at once
MaxPending == 2
\* position watches registered over a run
MaxWatches == 2
\* setTimeout callbacks that may be pending at once
MaxTimers == 2
\* simulated shared locations broadcastLocation schedules over a run
MaxShares == 2
\* directions requests that may be in flight at once
MaxFetches == 2

-----------------------------------------------------------------------------
(* CONFIG and SAMPLE_CAMPUS_DATA of campus-map.js.                         *)

CONFIG ==
    [ defaultCenter  |-> <<-1224194, 377749>>,
      defaultZoom    |-> 15,
      defaultPitch   |-> 45,
      defaultBearing |-> -176,    \* -17.6, in tenths of a degree
      campusBounds   |-> << <<-1224300, 377700>>, <<-1224100, 377800>> >> ]

buildings ==
    << [id |-> "eng-main",  name |-> "Engineering Main Building",
        coordinates |-> <<-1224194, 377749>>, type |-> "academic"],
       [id |-> "eng-lab",   name |-> "Engineering Laboratory Complex",
        coordinates |-> <<-1224180, 377745>>, type |-> "academic"],
       [id |-> "library",   name |-> "University Library",
        coordinates |-> <<-1224200, 377755>>, type |-> "library"],
       [id |-> "admin",     name |-> "Administration Building",
        coordinates |-> <<-1224210, 377740>>, type |-> "administrative"],
       [id |-> "cafeteria", name |-> "Student Cafeteria",
        coordinates |-> <<-1224185, 377752>>, type |-> "amenity"] >>

parkingLots ==
    << [id |-> "parking-a", name |-> "Parking Lot A",
        coordinates |-> <<-1224170, 377750>>, type |-> "student"],
       [id |-> "parking-b", name |-> "Parking Lot B",
        coordinates |-> <<-1224220, 377745>>, type |-> "faculty"] >>

\* shuttleStops with the third stop given the id of the building it serves
shuttleStopsNamedAfterBuilding ==
    << [id |-> "stop-1", name |-> "Main Gate",
        coordinates |-> <<-1224190, 377740>>],
       [id |-> "stop-2", name |-> "Engineering Building",
        coordinates |-> <<-1224194, 377749>>],
       [id |-> "library", name |-> "Library",
        coordinates |-> <<-1224200, 377755>>] >>

shuttleStops ==
    << [id |-> "stop-1", name |-> "Main Gate",
        coordinates |-> <<-1224190, 377740>>],
       [id |-> "stop-2", name |-> "Engineering Building",
        coordinates |-> <<-1224194, 377749>>],
       [id |-> "stop-3", name |-> "Library",
        coordinates |-> <<-1224200, 377755>>] >>

SAMPLE_CAMPUS_DATA ==
    [ buildings    |-> buildings,
      parkingLots  |-> parkingLots,
      shuttleStops |-> shuttleStops ]

\* The vertices of the polygon MedicalCampusMap.drawCampusBoundary draws.
CampusBoundary ==
    << <<805718, 61175>>, <<805745, 61175>>, <<805745, 61140>>,
       <<805718, 61140>>, <<805718, 61175>> >>

Range(s) == { s[i] : i \in 1..Len(s) }

\* Array.prototype.find over a list of records, by id: the first record whose
\* id is strictly equal to the one asked for, Null if there is none.
RECURSIVE FindFrom(_, _, _)
FindFrom(list, id, i) ==
    IF i > Len(list) THEN Null
    ELSE IF list[i].id = id THEN list[i]
    ELSE FindFrom(list, id, i + 1)

FindById(list, id) == FindFrom(list, id, 1)

\* How many records of a list carry the id.
CountId(list, id) == Cardinality({ i \in 1..Len(list) : list[i].id = id })

-----------------------------------------------------------------------------
(* getBuildingColor and the 'campus-buildings-3d' paint expression.        *)

\* The object literal of getBuildingColor: its own properties.
colors ==
    [ t \in {"academic", "library", "administrative", "amenity"} |->
        CASE t = "academic"       -> "#4285f4"
          [] t = "library"        -> "#34a853"
          [] t = "administrative" -> "#fbbc04"
          [] t = "amenity"        -> "#ea4335" ]

\* Property names every object literal inherits from Object.prototype; the
\* value of each is a function or an object, never a colour.
ObjectPrototype ==
    { "constructor", "toString", "valueOf", "hasOwnProperty", "__proto__" }

\* obj[key] on an object literal: own property, else inherited, else
\* undefined.  A key is converted to a string, undefined to "undefined".
GetProperty(obj, key) ==
    IF key \in DOMAIN obj THEN obj[key]
    ELSE IF key \in ObjectPrototype THEN "[inherited]"
    ELSE "undefined"

\* ToBoolean of what GetProperty returns.
Truthy(v) == v \notin {"undefined", ""}

getBuildingColor(type) ==
    LET v == GetProperty(colors, type)
    IN  IF Truthy(v) THEN v ELSE "#999999"

\* The "fill-extrusion-color" case expression of addCampusBuildings.
FillExtrusionColor(type) ==
    CASE type = "academic"       -> "#4285f4"
      [] type = "library"        -> "#34a853"
      [] type = "administrative" -> "#fbbc04"
      [] type = "amenity"        -> "#ea4335"
      [] OTHER                   -> "#999999"

\* The values getBuildingColor is called with in the model: the types of the
\* data, a missing type, and names a customised record could carry.
TypeValues ==
    { "academic", "library", "administrative", "amenity", "student",
      "faculty", "research", "undefined", "constructor", "toString" }

-----------------------------------------------------------------------------
(* turf.distance and checkProximity.                                       *)

ProximityMeters == 50

\* The square of the distance between two points, in decimetres.  At the
\* latitude of the data 1e-4 degree of longitude is 8.8 m and 1e-4 degree
\* of latitude 11.1 m; over the few hundred metres of the campus the
\* great-circle distance of turf.distance and this planar one differ by
\* less than a quarter of a metre.
distance2(from, to) ==
    LET dx == (from[1] - to[1]) * 88
        dy == (from[2] - to[2]) * 111
    IN  dx * dx + dy * dy

\* distance < 50 (metres)
Within(from, to) ==
    distance2(from, to) < (ProximityMeters * 10) * (ProximityMeters * 10)

\* SAMPLE_CAMPUS_DATA.buildings.filter(distance < 50), in list order
RECURSIVE nearbyFrom(_, _)
nearbyFrom(loc, i) ==
    LET list == SAMPLE_CAMPUS_DATA.buildings
    IN  IF i > Len(list) THEN <<>>
        ELSE IF Within(loc, list[i].coordinates)
             THEN <<list[i]>> \o nearbyFrom(loc, i + 1)
             ELSE nearbyFrom(loc, i + 1)

nearbyBuildings(loc) == nearbyFrom(loc, 1)

\* The positions the geolocation API reports in the model.
GpsPositions ==
    { <<-1224198, 377752>>, <<-1224196, 377752>>, <<-1224183, 377748>>,
      <<-1224250, 377760>> }

\* The share codes Math.random().toString(36) yields in the model.
ShareCodes == { "K3X9QA", "7FZ2MB" }

-----------------------------------------------------------------------------
(* Page "campus-map": class CampusMap3D.                                   *)

\* The camera command flyToLocation issues.
flyToLocation(coordinates, is3D) ==
    [ center |-> coordinates, zoom |-> 18,
      pitch |-> IF is3D THEN CONFIG.defaultPitch ELSE 0,
      bearing |-> IF is3D THEN CONFIG.defaultBearing ELSE 0 ]

\* The state after new CampusMap3D(): the constructor's assignments, then
\* init() up to and including startLocationTracking().
Init3D ==
    /\ page = "campus-map"
    /\ location = <<>>
    /\ \E supported \in BOOLEAN :
         /\ geolocation = [ supported |-> supported,
                            pending   |-> IF supported THEN 1 ELSE 0,
                            watches   |-> IF supported THEN {1} ELSE {},
                            issued    |-> IF supported THEN 1 ELSE 0 ]
         /\ campusMap = [ userLocation     |-> Null,
                          userMarker       |-> Null,
                          selectedBuilding |-> Null,
                          trackingInterval |-> IF supported THEN 1 ELSE 0,
                          is3D             |-> TRUE,
                          markers          |-> <<>>,
                          shareCode        |-> "",
                          sharedLocations  |-> {} ]
         /\ alerted = IF supported THEN ""
                      ELSE "Geolocation is not supported by your browser"
    /\ medicalCampusMap = Null
    /\ campusMapApp = Null
    /\ dom = [ currentLocation  |-> Null,
               travelInfo       |-> <<>>,
               shareCode        |-> "",
               shareCodeDisplay |-> "none",
               toggle3d         |-> "Toggle 3D",
               toggleTracking   |-> TRUE,
               toggleBuildings  |-> TRUE,
               toggleAccessibility |-> FALSE,
               toggleParking    |-> FALSE,
               buildingModal    |-> "none",
               loading          |-> "block" ]
    /\ map = [ loaded        |-> FALSE,
               camera        |-> [ center |-> CONFIG.defaultCenter,
                                   zoom |-> CONFIG.defaultZoom,
                                   pitch |-> CONFIG.defaultPitch,
                                   bearing |-> CONFIG.defaultBearing ],
               userMarkers   |-> 0,
               sharedMarkers |-> 0,
               sources       |-> {},
               layers        |-> {},
               fillExtrusionColor |-> <<>> ]
    /\ directions = [ origin |-> Null, destination |-> Null ]
    /\ timers = <<>>
    /\ fetches = <<>>
    /\ console = ""
    /\ call = Null
    /\ shared = Null

\* The position object the error callback of getCurrentPosition passes to
\* updateUserLocation.
DefaultPosition ==
    [ coords |-> [ latitude  |-> CONFIG.defaultCenter[2],
                   longitude |-> CONFIG.defaultCenter[1] ] ]

\* A position the geolocation API reports.
GpsPosition(p) ==
    [ coords |-> [ latitude |-> p[2], longitude |-> p[1] ] ]

\* checkProximity: what 'travel-info' holds afterwards.
checkProximity(userLocation, travelInfo) ==
    IF userLocation = Null THEN travelInfo
    ELSE LET nearby == nearbyBuildings(userLocation)
         IN  IF Len(nearby) > 0
             THEN <<"Nearby:", nearby[1].name>>
             ELSE travelInfo

\* updateUserLocation(position), checkProximity included.
updateUserLocation(position) ==
    LET latitude  == position.coords.latitude
        longitude == position.coords.longitude
        loc       == <<longitude, latitude>>
    IN  /\ campusMap' = [campusMap EXCEPT !.userLocation = loc,
                                          !.userMarker = loc]
        /\ map' = [map EXCEPT !.userMarkers =
                       IF campusMap.userMarker # Null THEN @ ELSE @ + 1]
        /\ dom' = [dom EXCEPT !.currentLocation = loc,
                              !.travelInfo = checkProximity(loc, @)]

\* The success callback of getCurrentPosition.
GeoSuccess3D ==
    /\ page = "campus-map"
    /\ geolocation.pending > 0
    /\ \E p \in GpsPositions : updateUserLocation(GpsPosition(p))
    /\ geolocation' = [geolocation EXCEPT !.pending = @ - 1]
    /\ UNCHANGED <<page, location, medicalCampusMap, campusMapApp, directions,
                   timers, fetches, alerted, console, call, shared>>

\* An error callback that only logs, as the watch's error callback does.
GeoError3DLogOnly ==
    /\ page = "campus-map"
    /\ geolocation.pending > 0
    /\ console' = "Error getting location:"
    /\ geolocation' = [geolocation EXCEPT !.pending = @ - 1]
    /\ UNCHANGED <<page, location, campusMap, medicalCampusMap, campusMapApp,
                   dom, map, directions, timers, fetches, alerted, call,
                   shared>>

\* The error callback of getCurrentPosition.
GeoError3D ==
    /\ page = "campus-map"
    /\ geolocation.pending > 0
    /\ console' = "Error getting location:"
    /\ updateUserLocation(DefaultPosition)
    /\ geolocation' = [geolocation EXCEPT !.pending = @ - 1]
    /\ UNCHANGED <<page, location, medicalCampusMap, campusMapApp, directions,
                   timers, fetches, alerted, call, shared>>

\* The success callback of a registered watch.
WatchPosition3D ==
    /\ page = "campus-map"
    /\ geolocation.watches # {}
    /\ \E p \in GpsPositions : updateUserLocation(GpsPosition(p))
    /\ UNCHANGED <<page, location, medicalCampusMap, campusMapApp, directions,
                   geolocation, timers, fetches, alerted, console, call,
                   shared>>

\* The error callback of a registered watch.
WatchError3D ==
    /\ page = "campus-map"
    /\ geolocation.watches # {}
    /\ console' = "Error tracking location:"
    /\ UNCHANGED <<page, location, campusMap, medicalCampusMap, campusMapApp,
                   dom, map, directions, geolocation, timers, fetches,
                   alerted, call, shared>>

\* startLocationTracking()
startLocationTracking ==
    IF ~geolocation.supported
    THEN /\ alerted' = "Geolocation is not supported by your browser"
         /\ UNCHANGED <<geolocation, campusMap>>
    ELSE /\ geolocation' =
               [geolocation EXCEPT !.pending = @ + 1,
                                   !.issued  = @ + 1,
                                   !.watches = @ \cup {geolocation.issued + 1}]
         /\ campusMap' = [campusMap EXCEPT
                              !.trackingInterval = geolocation.issued + 1]
         /\ UNCHANGED alerted

\* stopLocationTracking()
stopLocationTracking ==
    /\ geolocation' =
           IF campusMap.trackingInterval # 0
           THEN [geolocation EXCEPT
                     !.watches = @ \ {campusMap.trackingInterval}]
           ELSE geolocation
    /\ campusMap' = [campusMap EXCEPT !.trackingInterval = 0,
                                      !.userMarker = Null]
    /\ map' = [map EXCEPT !.userMarkers =
                   IF campusMap.userMarker # Null THEN @ - 1 ELSE @]

\* The change listener of the 'toggle-tracking' checkbox.
ToggleTracking3D ==
    /\ page = "campus-map"
    /\ dom' = [dom EXCEPT !.toggleTracking = ~@]
    /\ IF ~dom.toggleTracking
       THEN /\ geolocation.pending < MaxPending
            /\ geolocation.issued < MaxWatches
            /\ startLocationTracking
            /\ UNCHANGED map
       ELSE /\ stopLocationTracking
            /\ UNCHANGED alerted
    /\ UNCHANGED <<page, location, medicalCampusMap, campusMapApp, directions,
                   timers, fetches, console, call, shared>>

\* shareLocation() without the return after showError.
ShareLocation3DNoReturn ==
    /\ page = "campus-map"
    /\ Len(timers) < MaxTimers
    /\ map.sharedMarkers + Len(timers) < MaxShares
    /\ alerted' = IF campusMap.userLocation = Null
                  THEN "Location not available" ELSE alerted
    /\ \E code \in ShareCodes :
         /\ campusMap' = [campusMap EXCEPT !.shareCode = code]
         /\ dom' = [dom EXCEPT !.shareCode = code,
                               !.shareCodeDisplay = "block"]
    /\ timers' = Append(timers, [ fn |-> "receiveSharedLocation",
                                  code |-> "DEMO123" ])
    /\ UNCHANGED <<page, location, medicalCampusMap, campusMapApp, map,
                   directions, geolocation, fetches, console, call,
                   shared>>

\* shareLocation(), broadcastLocation() included.
ShareLocation3D ==
    /\ page = "campus-map"
    /\ IF campusMap.userLocation = Null
       THEN /\ alerted' = "Location not available"
            /\ UNCHANGED <<campusMap, dom, timers>>
       ELSE /\ Len(timers) < MaxTimers
            /\ map.sharedMarkers + Len(timers) < MaxShares
            /\ \E code \in ShareCodes :
                 /\ campusMap' = [campusMap EXCEPT !.shareCode = code]
                 /\ dom' = [dom EXCEPT !.shareCode = code,
                                       !.shareCodeDisplay = "block"]
            /\ timers' = Append(timers, [ fn |-> "receiveSharedLocation",
                                          code |-> "DEMO123" ])
            /\ UNCHANGED alerted
    /\ UNCHANGED <<page, location, medicalCampusMap, campusMapApp, map,
                   directions, geolocation, fetches, console, call,
                   shared>>

\* The setTimeout callback of broadcastLocation: receiveSharedLocation(data).
ReceiveSharedLocation ==
    /\ page = "campus-map"
    /\ timers # <<>>
    /\ Head(timers).fn = "receiveSharedLocation"
    /\ timers' = Tail(timers)
    /\ map' = [map EXCEPT !.sharedMarkers = @ + 1]
    /\ campusMap' = [campusMap EXCEPT
                         !.sharedLocations = @ \cup {Head(timers).code}]
    /\ UNCHANGED <<page, location, medicalCampusMap, campusMapApp, dom,
                   directions, geolocation, fetches, alerted, console,
                   call, shared>>

\* The text of the marker elements, one entry per code point: the parking
\* sign is U+1F17F followed by the variation selector U+FE0F.
ParkingIcon == <<"U+1F17F", "U+FE0F">>

ShuttleIcon == <<"U+1F68C">>

\* The innerHTML of the element each kind of marker is built on.
ElementHTML(kind) ==
    IF kind = "parking" THEN ParkingIcon
    ELSE IF kind = "shuttle" THEN ShuttleIcon
    ELSE <<>>

\* A marker placed at [latitude, longitude].
MarkerLatLng(kind, rec, color) ==
    [ kind |-> kind, id |-> rec.id,
      lngLat |-> <<rec.coordinates[2], rec.coordinates[1]>>,
      backgroundColor |-> color, innerHTML |-> ElementHTML(kind),
      display |-> "", popup |-> FALSE ]

\* One marker of addCampusBuildings, addParkingLots or addShuttleStops.
Marker(kind, rec, color) ==
    [ kind |-> kind, id |-> rec.id, lngLat |-> rec.coordinates,
      backgroundColor |-> color, innerHTML |-> ElementHTML(kind),
      display |-> "", popup |-> FALSE ]

BuildingMarkers ==
    [ i \in 1..Len(SAMPLE_CAMPUS_DATA.buildings) |->
        LET building == SAMPLE_CAMPUS_DATA.buildings[i]
        IN  Marker("building", building, getBuildingColor(building.type)) ]

ParkingMarkers ==
    [ i \in 1..Len(SAMPLE_CAMPUS_DATA.parkingLots) |->
        Marker("parking", SAMPLE_CAMPUS_DATA.parkingLots[i], "") ]

ShuttleMarkers ==
    [ i \in 1..Len(SAMPLE_CAMPUS_DATA.shuttleStops) |->
        Marker("shuttle", SAMPLE_CAMPUS_DATA.shuttleStops[i], "") ]

\* The colour the 'campus-buildings-3d' layer paints each feature of the
\* 'campus-buildings' source with.
BuildingExtrusions ==
    [ i \in 1..Len(SAMPLE_CAMPUS_DATA.buildings) |->
        LET building == SAMPLE_CAMPUS_DATA.buildings[i]
        IN  [ id |-> building.id,
              color |-> FillExtrusionColor(building.type) ] ]

\* The map's 'load' event: onMapLoad(), then showLoading(false).
MapLoad3D ==
    /\ page = "campus-map"
    /\ ~map.loaded
    /\ map' = [map EXCEPT
           !.loaded = TRUE,
           !.sources = @ \cup { "mapbox-dem", "campus-buildings",
                                "busy-areas", "campus-paths" },
           !.layers = @ \cup { "sky", "3d-buildings", "campus-buildings-3d",
                               "campus-paths-layer" },
           !.fillExtrusionColor = BuildingExtrusions ]
    /\ campusMap' = [campusMap EXCEPT
           !.markers = @ \o BuildingMarkers \o ParkingMarkers
                         \o ShuttleMarkers]
    /\ dom' = [dom EXCEPT !.loading = "none"]
    /\ UNCHANGED <<page, location, medicalCampusMap, campusMapApp, directions,
                   geolocation, timers, fetches, alerted, console, call,
                   shared>>

\* A call of getBuildingColor(type).
GetBuildingColor ==
    /\ page = "campus-map"
    /\ \E type \in TypeValues :
         call' = [ fn |-> "getBuildingColor", arg |-> type,
                   value |-> getBuildingColor(type) ]
    /\ UNCHANGED <<page, location, campusMap, medicalCampusMap, campusMapApp,
                   dom, map, directions, geolocation, timers, fetches,
                   alerted, console, shared>>

\* The ids navigateToBuilding is called with in the model: every id of the
\* data and one that no record carries.
IdValues ==
    { r.id : r \in Range(SAMPLE_CAMPUS_DATA.buildings)
                   \cup Range(SAMPLE_CAMPUS_DATA.parkingLots)
                   \cup Range(SAMPLE_CAMPUS_DATA.shuttleStops) }
    \cup { "gym" }

\* navigateToBuilding(buildingId)
NavigateToBuilding3D ==
    /\ page = "campus-map"
    /\ \E buildingId \in IdValues :
         LET building == FindById(SAMPLE_CAMPUS_DATA.buildings, buildingId)
         IN  /\ call' = [ fn |-> "navigateToBuilding", arg |-> buildingId,
                          value |-> building ]
             /\ IF building = Null
                THEN UNCHANGED <<map, directions>>
                ELSE /\ map' = [map EXCEPT !.camera =
                             flyToLocation(building.coordinates,
                                           campusMap.is3D)]
                     /\ directions' =
                          IF campusMap.userLocation # Null
                          THEN [ origin |-> campusMap.userLocation,
                                 destination |-> building.coordinates ]
                          ELSE directions
    /\ UNCHANGED <<page, location, campusMap, medicalCampusMap, campusMapApp,
                   dom, geolocation, timers, fetches, alerted, console,
                   shared>>

\* toggle3D() with the two button texts exchanged.
toggle3DNamingTheView(is3D) ==
    [ is3D        |-> ~is3D,
      pitch       |-> IF ~is3D THEN CONFIG.defaultPitch ELSE 0,
      bearing     |-> IF ~is3D THEN CONFIG.defaultBearing ELSE 0,
      textContent |-> IF ~is3D THEN "3D View" ELSE "2D View" ]

\* toggle3D(): the new this.is3D, the pitch and bearing of its easeTo and
\* the text it gives the 'toggle-3d' button.
toggle3D(is3D) ==
    [ is3D        |-> ~is3D,
      pitch       |-> IF ~is3D THEN CONFIG.defaultPitch ELSE 0,
      bearing     |-> IF ~is3D THEN CONFIG.defaultBearing ELSE 0,
      textContent |-> IF ~is3D THEN "2D View" ELSE "3D View" ]

\* A click on the 'toggle-3d' button.
Toggle3D ==
    /\ page = "campus-map"
    /\ campusMap' = [campusMap EXCEPT !.is3D = toggle3D(@).is3D]
    /\ map' = [map EXCEPT
           !.camera.pitch = toggle3D(campusMap.is3D).pitch,
           !.camera.bearing = toggle3D(campusMap.is3D).bearing]
    /\ dom' = [dom EXCEPT
           !.toggle3d = toggle3D(campusMap.is3D).textContent]
    /\ UNCHANGED <<page, location, medicalCampusMap, campusMapApp, directions,
                   geolocation, timers, fetches, alerted, console, call,
                   shared>>

\* The campus data and its rendering: load, colours, lookups, camera.
NextData3D ==
    \/ MapLoad3D
    \/ GetBuildingColor
    \/ NavigateToBuilding3D
    \/ Toggle3D

SpecData3D == Init3D /\ [][NextData3D]_vars

\* Location tracking and location sharing of CampusMap3D.
NextLocate3D ==
    \/ GeoSuccess3D
    \/ GeoError3D
    \/ WatchPosition3D
    \/ WatchError3D
    \/ ToggleTracking3D
    \/ ShareLocation3D
    \/ ReceiveSharedLocation

SpecLocate3D == Init3D /\ [][NextLocate3D]_vars

-----------------------------------------------------------------------------
(* Text: numbers written into a share link and read back from the URL.     *)

\* Stands for NaN: no identifier or coordinate of the model equals it.
NaN == -999999999

Digit == <<"0", "1", "2", "3", "4", "5", "6", "7", "8", "9">>

IsDigit(c) == \E d \in 1..10 : Digit[d] = c

DigitValue(c) == (CHOOSE d \in 1..10 : Digit[d] = c) - 1

\* The decimal digits of a natural number.
RECURSIVE Digits(_)
Digits(n) ==
    IF n < 10 THEN <<Digit[n + 1]>>
    ELSE Digits(n \div 10) \o <<Digit[(n % 10) + 1]>>

\* The value of a run of digits; 0 for the empty run.
RECURSIVE DigitsValue(_)
DigitsValue(s) ==
    IF s = <<>> THEN 0
    ELSE DigitsValue(SubSeq(s, 1, Len(s) - 1)) * 10 + DigitValue(s[Len(s)])

\* The longest prefix of s made of digits.
RECURSIVE LeadingDigits(_)
LeadingDigits(s) ==
    IF s = <<>> \/ ~IsDigit(Head(s)) THEN <<>>
    ELSE <<Head(s)>> \o LeadingDigits(Tail(s))

StripTrailingZeros(s) ==
    LET keep == { i \in 1..Len(s) : s[i] # "0" }
    IN  IF keep = {} THEN <<>>
        ELSE SubSeq(s, 1, CHOOSE i \in keep : \A k \in keep : k <= i)

Abs(n) == IF n < 0 THEN -n ELSE n

\* String(n) of an integer, as `${buildingId}` writes it.
IntToString(n) ==
    (IF n < 0 THEN <<"-">> ELSE <<>>) \o Digits(Abs(n))

\* String(x) of a coordinate x held in units of 1e-4: the integer part, and
\* the fraction without its trailing zeros when there is one.
CoordToString(v) ==
    LET whole == Abs(v) \div 10000
        frac  == Abs(v) % 10000
        four  == <<Digit[(frac \div 1000) + 1], Digit[((frac \div 100) % 10) + 1],
                   Digit[((frac \div 10) % 10) + 1], Digit[(frac % 10) + 1]>>
    IN  (IF v < 0 THEN <<"-">> ELSE <<>>) \o Digits(whole)
        \o (IF frac = 0 THEN <<>> ELSE <<".">> \o StripTrailingZeros(four))

\* parseInt(s): an optional sign and the leading digits; NaN without any.
parseInt(s) ==
    LET neg  == s # <<>> /\ Head(s) = "-"
        rest == IF s # <<>> /\ Head(s) \in {"-", "+"} THEN Tail(s) ELSE s
        ds   == LeadingDigits(rest)
    IN  IF ds = <<>> THEN NaN
        ELSE IF neg THEN -DigitsValue(ds) ELSE DigitsValue(ds)

\* Number(s) in units of 1e-4: the whole text must be a decimal literal;
\* the empty text is 0.  Digits past the fourth decimal are dropped.
Number(s) ==
    LET neg   == s # <<>> /\ Head(s) = "-"
        rest  == IF s # <<>> /\ Head(s) \in {"-", "+"} THEN Tail(s) ELSE s
        whole == LeadingDigits(rest)
        after == SubSeq(rest, Len(whole) + 1, Len(rest))
        frac  == IF after # <<>> /\ Head(after) = "."
                 THEN LeadingDigits(Tail(after)) ELSE <<>>
        used  == Len(whole)
                 + (IF after # <<>> /\ Head(after) = "." THEN 1 + Len(frac)
                    ELSE 0)
        four  == SubSeq(frac \o <<"0", "0", "0", "0">>, 1, 4)
        value == DigitsValue(whole) * 10000 + DigitsValue(four)
    IN  IF s = <<>> THEN 0
        ELSE IF used # Len(rest) \/ (whole = <<>> /\ frac = <<>>) THEN NaN
        ELSE IF neg THEN -value ELSE value

\* s.split(","): the pieces of s between commas.
RECURSIVE Split(_)
Split(s) ==
    LET commas == { i \in 1..Len(s) : s[i] = "," }
    IN  IF commas = {} THEN <<s>>
        ELSE LET i == CHOOSE c \in commas : \A k \in commas : c <= k
             IN  <<SubSeq(s, 1, i - 1)>> \o Split(SubSeq(s, i + 1, Len(s)))

\* const [lng, lat] = coords.split(",").map(Number)
ParseCoords(coords) ==
    LET parts == Split(coords)
    IN  << Number(parts[1]),
           IF Len(parts) >= 2 THEN Number(parts[2]) ELSE NaN >>

\* URLSearchParams.get(name): the value of the first pair with that name.
\* A missing parameter (null) and an empty value are both the empty text:
\* the code only tests the result for truthiness.
RECURSIVE GetFrom(_, _, _)
GetFrom(search, name, i) ==
    IF i > Len(search) THEN <<>>
    ELSE IF search[i][1] = name THEN search[i][2]
    ELSE GetFrom(search, name, i + 1)

URLSearchParamsGet(search, name) == GetFrom(search, name, 1)

\* URLSearchParams.has(name)
URLSearchParamsHas(search, name) ==
    \E i \in 1..Len(search) : search[i][1] = name

-----------------------------------------------------------------------------
(* Page "medical": MedicalCampusMap (map-config.js) and CampusMapApp.      *)

\* The campus data the page loads: numbered buildings and landmarks.
CAMPUS_DATA ==
    [ center |-> <<805731, 61158>>,
      zoom   |-> 17,
      buildings |-> <<
        [id |-> 1, number |-> <<"1">>, name |-> <<"O", "P", "D">>,
         description |-> <<"c", "a", "r", "e">>,
         category |-> "clinical", coordinates |-> <<805725, 61165>>],
        [id |-> 2, number |-> <<"2">>, name |-> <<"L", "a", "b">>,
         description |-> <<"t", "e", "s", "t", "s">>,
         category |-> "academic", coordinates |-> <<805738, 61150>>] >>,
      landmarks |-> <<
        [name |-> "Main Gate", coordinates |-> <<805720, 61142>>] >> ]

BuildingIds == { CAMPUS_DATA.buildings[i].id :
                   i \in 1..Len(CAMPUS_DATA.buildings) }

\* The positions the geolocation API reports on this page in the model.
AppPositions == { <<805730, 61160>>, <<805742, 61147>> }

\* The text of the option "Current Location" of the start dropdown.
Current == <<"c", "u", "r", "r", "e", "n", "t">>

\* The query strings the page is opened with in the model, as lists of
\* <<name, value>>: none, a building (known, unknown, not a number, empty),
\* a coordinate pair (well-formed, empty), and both parameters together.
UrlValues ==
    { <<>>,
      << <<"building", <<"2">>>> >>,
      << <<"building", <<"7">>>> >>,
      << <<"building", <<"x">>>> >>,
      << <<"building", <<>>>> >>,
      << <<"coords", <<"8", "0", ".", "5", "7", "4", ",",
                       "6", ".", "1", "1", "5">>>> >>,
      << <<"coords", <<>>>> >>,
      << <<"building", <<"1">>>>,
         <<"coords", <<"8", "0", ".", "5", "7", "4", ",",
                       "6", ".", "1", "1", "5">>>> >>,
      << <<"building", <<>>>>,
         <<"coords", <<"8", "0", ".", "5", "7", "4", ",",
                       "6", ".", "1", "1", "5">>>> >> }

\* checkURLParameters with the coordinate pair looked at first.
checkURLParametersCoordsFirst(search) ==
    LET buildingId == URLSearchParamsGet(search, "building")
        coords     == URLSearchParamsGet(search, "coords")
    IN  IF coords # <<>>
        THEN << [ fn |-> "flyTo", center |-> ParseCoords(coords) ] >>
        ELSE IF buildingId # <<>>
        THEN << [ fn |-> "goToBuilding", arg |-> parseInt(buildingId) ] >>
        ELSE <<>>

\* checkURLParameters(): the timers it leaves scheduled.
checkURLParameters(search) ==
    LET buildingId == URLSearchParamsGet(search, "building")
        coords     == URLSearchParamsGet(search, "coords")
    IN  IF buildingId # <<>>
        THEN << [ fn |-> "goToBuilding", arg |-> parseInt(buildingId) ] >>
        ELSE IF coords # <<>>
        THEN << [ fn |-> "flyTo", center |-> ParseCoords(coords) ] >>
        ELSE <<>>

UpperCase == <<"A", "B", "C", "D", "E", "F", "G", "H", "I", "J", "K", "L", "M",
               "N", "O", "P", "Q", "R", "S", "T", "U", "V", "W", "X", "Y", "Z">>

LowerCase == <<"a", "b", "c", "d", "e", "f", "g", "h", "i", "j", "k", "l", "m",
               "n", "o", "p", "q", "r", "s", "t", "u", "v", "w", "x", "y", "z">>

\* String.prototype.toLowerCase
toLowerCase(text) ==
    [ i \in 1..Len(text) |->
        IF \E k \in 1..26 : UpperCase[k] = text[i]
        THEN LowerCase[CHOOSE k \in 1..26 : UpperCase[k] = text[i]]
        ELSE text[i] ]

\* String.prototype.includes
includes(text, term) ==
    \E i \in 0..(Len(text) - Len(term)) :
        \A j \in 1..Len(term) : text[i + j] = term[j]

\* The test handleSearch applies to a building with the query as typed, and
\* populateBuildingList with the query in lower case: name and description
\* are compared in lower case, the number as it is.
Matches(b, query) ==
    \/ includes(toLowerCase(b.name), toLowerCase(query))
    \/ includes(toLowerCase(b.description), toLowerCase(query))
    \/ includes(b.number, query)

\* The buildings of a list that pass the category filter and, for a term
\* that is not empty, the test above, in the list's order.
RECURSIVE FilterFrom(_, _, _, _)
FilterFrom(list, category, term, i) ==
    IF i > Len(list) THEN <<>>
    ELSE LET b == list[i]
             rest == FilterFrom(list, category, term, i + 1)
         IN  IF /\ (category = "all" \/ b.category = category)
                /\ (term = <<>> \/ Matches(b, term))
             THEN <<b.id>> \o rest
             ELSE rest

\* populateBuildingList with a category filter that is skipped.
populateBuildingListAnyCategory(category, searchTerm) ==
    FilterFrom(CAMPUS_DATA.buildings, "all", toLowerCase(searchTerm), 1)

\* populateBuildingList(category, searchTerm): the ids of the items listed.
populateBuildingList(category, searchTerm) ==
    FilterFrom(CAMPUS_DATA.buildings, category, toLowerCase(searchTerm), 1)

\* The fields the MedicalCampusMap constructor sets, and the two
\* CampusMapApp adds to the instance later (watchId, userMarker).
NewMedicalCampusMap ==
    [ markers         |-> <<>>,
      currentRoute    |-> Null,
      userLocation    |-> Null,
      trackingEnabled |-> FALSE,
      labelsVisible   |-> TRUE,
      is3DEnabled     |-> TRUE,
      watchId         |-> 0,
      userMarker      |-> Null ]

\* The fields the CampusMapApp constructor sets; routeMarkers is undefined
\* until the first displayRoute defines it.
NewCampusMapApp ==
    [ currentCategory |-> "all",
      searchQuery     |-> <<>>,
      transportMode   |-> "walking",
      routeMarkers    |-> [ defined |-> FALSE, markers |-> <<>> ] ]

\* The elements of the page as the document declares them.
NewDocument ==
    [ searchInput   |-> <<>>,
      searchResults |-> <<>>,
      buildingList  |-> <<>>,
      startLocation |-> <<>>,
      endLocation   |-> <<>>,
      routeInfo     |-> [ hidden |-> TRUE, mode |-> "" ],
      trackBtn      |-> "",
      trackingInfo  |-> [ hidden |-> TRUE, location |-> Null ],
      shareLink     |-> <<>>,
      shareModal    |-> [ hidden |-> TRUE ],
      loading       |-> [ hidden |-> FALSE ] ]

\* The map MedicalCampusMap.init() creates.  visibility is the layout
\* property of the '3d-buildings' layer, "visible" for a layer added without
\* one; it means nothing while the layer does not exist.
NewMap ==
    [ loaded       |-> FALSE,
      camera       |-> [ center |-> CAMPUS_DATA.center,
                         zoom |-> CAMPUS_DATA.zoom, pitch |-> 45,
                         bearing |-> 0, fitted |-> Null ],
      userMarkers  |-> 0,
      routeMarkers |-> 0,
      route        |-> Null,
      sources      |-> {},
      layers       |-> {},
      visibility   |-> "visible" ]

\* The page once new CampusMapApp() has returned; the map may still be
\* loading.
InitApp ==
    /\ page = "medical"
    /\ location \in UrlValues
    /\ campusMap = Null
    /\ medicalCampusMap = NewMedicalCampusMap
    /\ campusMapApp = NewCampusMapApp
    /\ dom = [NewDocument EXCEPT
                 !.buildingList = populateBuildingList("all", <<>>)]
    /\ map = NewMap
    /\ directions = Null
    /\ \E supported \in BOOLEAN :
         geolocation = [ supported |-> supported, pending |-> 0,
                         watches |-> {}, issued |-> 0 ]
    /\ timers = checkURLParameters(location)
    /\ fetches = <<>>
    /\ alerted = ""
    /\ console = ""
    /\ call = Null
    /\ shared = [ made |-> Null, opened |-> Null ]

\* The markers with loadLandmarks run before loadAllBuildings.
CampusMarkersLandmarksFirst ==
    [ i \in 1..Len(CAMPUS_DATA.landmarks) |->
        [ buildingData |-> Null,
          lngLat |-> CAMPUS_DATA.landmarks[i].coordinates,
          display |-> "", popup |-> FALSE ] ]
    \o
    [ i \in 1..Len(CAMPUS_DATA.buildings) |->
        [ buildingData |-> CAMPUS_DATA.buildings[i],
          lngLat |-> CAMPUS_DATA.buildings[i].coordinates,
          display |-> "", popup |-> FALSE ] ]

\* The markers loadAllBuildings and loadLandmarks push.
CampusMarkers ==
    [ i \in 1..Len(CAMPUS_DATA.buildings) |->
        [ buildingData |-> CAMPUS_DATA.buildings[i],
          lngLat |-> CAMPUS_DATA.buildings[i].coordinates,
          display |-> "", popup |-> FALSE ] ]
    \o
    [ i \in 1..Len(CAMPUS_DATA.landmarks) |->
        [ buildingData |-> Null,
          lngLat |-> CAMPUS_DATA.landmarks[i].coordinates,
          display |-> "", popup |-> FALSE ] ]

\* The map's 'load' event: onMapLoad().
MapLoad ==
    /\ page = "medical"
    /\ ~map.loaded
    /\ map' = [map EXCEPT
           !.loaded = TRUE,
           !.sources = @ \cup { "campus-boundary" },
           !.layers = @ \cup { "3d-buildings", "campus-boundary-line",
                               "campus-boundary-fill" },
           !.visibility = "visible"]
    /\ medicalCampusMap' = [medicalCampusMap EXCEPT
           !.markers = @ \o CampusMarkers]
    /\ UNCHANGED <<page, location, campusMap, campusMapApp, dom, directions,
                   geolocation, timers, fetches, alerted, console, call,
                   shared>>

\* The map's 'idle' event: hideLoading().
MapIdle ==
    /\ page = "medical"
    /\ map.loaded
    /\ dom' = [dom EXCEPT !.loading.hidden = TRUE]
    /\ UNCHANGED <<page, location, campusMap, medicalCampusMap, campusMapApp,
                   map, directions, geolocation, timers, fetches, alerted,
                   console, call, shared>>

\* markers.find(m => m.buildingData && m.buildingData.id === buildingId):
\* the index of the marker found, 0 if there is none.
RECURSIVE FindMarkerFrom(_, _, _)
FindMarkerFrom(markers, buildingId, i) ==
    IF i > Len(markers) THEN 0
    ELSE IF /\ markers[i].buildingData # Null
            /\ markers[i].buildingData.id = buildingId
         THEN i
         ELSE FindMarkerFrom(markers, buildingId, i + 1)

FindMarker(markers, buildingId) == FindMarkerFrom(markers, buildingId, 1)

\* goToBuilding(buildingId), run with the timers `pending` still scheduled.
goToBuilding(buildingId, pending) ==
    LET building == FindById(CAMPUS_DATA.buildings, buildingId)
        marker   == FindMarker(medicalCampusMap.markers, buildingId)
    IN  IF building = Null
        THEN /\ timers' = pending
             /\ UNCHANGED map
        ELSE /\ map' = [map EXCEPT !.camera.center = building.coordinates,
                                   !.camera.zoom = 19,
                                   !.camera.pitch = 45,
                                   !.camera.fitted = Null]
             /\ timers' = IF marker # 0
                          THEN Append(pending, [ fn |-> "togglePopup",
                                                 marker |-> marker ])
                          ELSE pending

\* The timer of checkURLParameters for a 'building' parameter.
UrlGoToBuilding ==
    /\ page = "medical"
    /\ timers # <<>>
    /\ Head(timers).fn = "goToBuilding"
    /\ goToBuilding(Head(timers).arg, Tail(timers))
    /\ UNCHANGED <<page, location, campusMap, medicalCampusMap, campusMapApp,
                   dom, directions, geolocation, fetches, alerted, console,
                   call, shared>>

\* The timer of checkURLParameters for a 'coords' parameter.
UrlFlyTo ==
    /\ page = "medical"
    /\ timers # <<>>
    /\ Head(timers).fn = "flyTo"
    /\ timers' = Tail(timers)
    /\ map' = [map EXCEPT !.camera.center = Head(timers).center,
                          !.camera.zoom = 18,
                          !.camera.fitted = Null]
    /\ UNCHANGED <<page, location, campusMap, medicalCampusMap, campusMapApp,
                   dom, directions, geolocation, fetches, alerted, console,
                   call, shared>>

\* The timer of goToBuilding: marker.togglePopup().
TogglePopupTimer ==
    /\ page = "medical"
    /\ timers # <<>>
    /\ Head(timers).fn = "togglePopup"
    /\ timers' = Tail(timers)
    /\ medicalCampusMap' = [medicalCampusMap EXCEPT
           !.markers[Head(timers).marker].popup = ~@]
    /\ UNCHANGED <<page, location, campusMap, campusMapApp, dom, map,
                   directions, geolocation, fetches, alerted, console, call,
                   shared>>

\* A click on an item of the building list: goToBuilding(building.id).
ClickBuildingItem ==
    /\ page = "medical"
    /\ Len(timers) < MaxTimers
    /\ \E i \in 1..Len(dom.buildingList) :
         goToBuilding(dom.buildingList[i], timers)
    /\ UNCHANGED <<page, location, campusMap, medicalCampusMap, campusMapApp,
                   dom, directions, geolocation, fetches, alerted, console,
                   call, shared>>

\* A click on a marker: the map toggles the marker's popup.
ClickMarker ==
    /\ page = "medical"
    /\ \E i \in 1..Len(medicalCampusMap.markers) :
         medicalCampusMap' = [medicalCampusMap EXCEPT !.markers[i].popup = ~@]
    /\ UNCHANGED <<page, location, campusMap, campusMapApp, dom, map,
                   directions, geolocation, timers, fetches, alerted, console,
                   call, shared>>

\* The query of the link shareBuilding builds.
BuildingLink(buildingId) ==
    << <<"building", IntToString(buildingId)>> >>

\* The query of the link shareCurrentLocation builds.
LocationLink(userLocation) ==
    << <<"location", <<"M", "y", " ", "L", "o", "c", "a", "t", "i", "o", "n">>>>,
       <<"coords", CoordToString(userLocation[1]) \o <<",">>
                     \o CoordToString(userLocation[2])>> >>

\* shareBuilding(buildingId) writing the link without looking the id up.
shareBuildingUnchecked(buildingId) ==
    /\ page = "medical"
    /\ dom' = [dom EXCEPT !.shareLink = BuildingLink(buildingId),
                          !.shareModal.hidden = FALSE]
    /\ shared' = [shared EXCEPT !.made =
                      [ kind |-> "building", id |-> buildingId ]]
    /\ UNCHANGED <<page, location, campusMap, medicalCampusMap, campusMapApp,
                   map, directions, geolocation, timers, fetches, alerted,
                   console, call>>

\* shareBuilding(buildingId)
shareBuilding(buildingId) ==
    /\ page = "medical"
    /\ LET building == FindById(CAMPUS_DATA.buildings, buildingId)
       IN  IF building = Null
           THEN UNCHANGED <<dom, shared>>
           ELSE /\ dom' = [dom EXCEPT
                       !.shareLink = BuildingLink(buildingId),
                       !.shareModal.hidden = FALSE]
                /\ shared' = [shared EXCEPT !.made =
                       [ kind |-> "building", id |-> buildingId ]]
    /\ UNCHANGED <<page, location, campusMap, medicalCampusMap, campusMapApp,
                   map, directions, geolocation, timers, fetches, alerted,
                   console, call>>

\* The Share button of an open popup: shareBuilding(building.id).
ShareBuilding ==
    \E i \in 1..Len(medicalCampusMap.markers) :
        /\ medicalCampusMap.markers[i].buildingData # Null
        /\ medicalCampusMap.markers[i].popup
        /\ shareBuilding(medicalCampusMap.markers[i].buildingData.id)

\* The 'share-location-btn' button: shareCurrentLocation().
ShareCurrentLocation ==
    /\ page = "medical"
    /\ IF medicalCampusMap.userLocation = Null
       THEN /\ alerted' = "Please enable GPS tracking first"
            /\ UNCHANGED <<dom, shared>>
       ELSE /\ dom' = [dom EXCEPT
                   !.shareLink = LocationLink(medicalCampusMap.userLocation),
                   !.shareModal.hidden = FALSE]
            /\ shared' = [shared EXCEPT !.made =
                   [ kind |-> "coords",
                     lngLat |-> medicalCampusMap.userLocation ]]
            /\ UNCHANGED alerted
    /\ UNCHANGED <<page, location, campusMap, medicalCampusMap, campusMapApp,
                   map, directions, geolocation, timers, fetches, console,
                   call>>

\* The close button of the share modal, or a click on its backdrop.
CloseShareModal ==
    /\ page = "medical"
    /\ ~dom.shareModal.hidden
    /\ dom' = [dom EXCEPT !.shareModal.hidden = TRUE]
    /\ UNCHANGED <<page, location, campusMap, medicalCampusMap, campusMapApp,
                   map, directions, geolocation, timers, fetches, alerted,
                   console, call, shared>>

\* The link in the 'share-link' field is opened: the page loads anew with
\* the link's query and CampusMapApp.init() runs on it.
OpenShareLink ==
    /\ page = "medical"
    /\ dom.shareLink # <<>>
    /\ location' = dom.shareLink
    /\ medicalCampusMap' = NewMedicalCampusMap
    /\ campusMapApp' = NewCampusMapApp
    /\ dom' = [NewDocument EXCEPT
                  !.buildingList = populateBuildingList("all", <<>>)]
    /\ map' = NewMap
    /\ geolocation' = [ supported |-> geolocation.supported, pending |-> 0,
                        watches |-> {}, issued |-> 0 ]
    /\ timers' = checkURLParameters(dom.shareLink)
    /\ fetches' = <<>>
    /\ alerted' = ""
    /\ console' = ""
    /\ shared' = [ made |-> Null, opened |-> shared.made ]
    /\ UNCHANGED <<page, campusMap, directions, call>>

\* onLocationUpdate with an updateUserMarker that adds the new marker and
\* leaves the previous one on the map.
onLocationUpdateAddingMarker(lngLat) ==
    /\ medicalCampusMap' = [medicalCampusMap EXCEPT
           !.userLocation = lngLat,
           !.userMarker = lngLat]
    /\ map' = [map EXCEPT !.userMarkers = @ + 1]
    /\ dom' = [dom EXCEPT !.trackingInfo =
           [ hidden |-> FALSE, location |-> lngLat ]]

\* onLocationUpdate(position): updateUserMarker and updateTrackingInfo
\* included.
onLocationUpdate(lngLat) ==
    /\ medicalCampusMap' = [medicalCampusMap EXCEPT
           !.userLocation = lngLat,
           !.userMarker = lngLat]
    /\ map' = [map EXCEPT !.userMarkers =
           IF medicalCampusMap.userMarker # Null THEN (@ - 1) + 1 ELSE @ + 1]
    /\ dom' = [dom EXCEPT !.trackingInfo =
           [ hidden |-> FALSE, location |-> lngLat ]]

\* startTracking() up to the position request.
startTracking ==
    IF ~geolocation.supported
    THEN /\ alerted' = "Geolocation is not supported by your browser"
         /\ UNCHANGED <<dom, geolocation>>
    ELSE /\ dom' = [dom EXCEPT !.loading.hidden = FALSE]
         /\ geolocation' = [geolocation EXCEPT !.pending = @ + 1]
         /\ UNCHANGED alerted

\* stopTracking() leaving the button's text as it is.
stopTrackingKeepingLabel ==
    /\ geolocation' =
           IF medicalCampusMap.watchId # 0
           THEN [geolocation EXCEPT
                     !.watches = @ \ {medicalCampusMap.watchId}]
           ELSE geolocation
    /\ medicalCampusMap' = [medicalCampusMap EXCEPT !.trackingEnabled = FALSE]
    /\ dom' = [dom EXCEPT !.trackingInfo.hidden = TRUE]

\* stopTracking()
stopTracking ==
    /\ geolocation' =
           IF medicalCampusMap.watchId # 0
           THEN [geolocation EXCEPT
                     !.watches = @ \ {medicalCampusMap.watchId}]
           ELSE geolocation
    /\ medicalCampusMap' = [medicalCampusMap EXCEPT !.trackingEnabled = FALSE]
    /\ dom' = [dom EXCEPT !.trackBtn = "Enable GPS Tracking",
                          !.trackingInfo.hidden = TRUE]

\* The 'track-location-btn' button: toggleTracking().
ToggleTracking ==
    /\ page = "medical"
    /\ IF ~medicalCampusMap.trackingEnabled
       THEN /\ geolocation.pending < MaxPending
            /\ geolocation.issued + geolocation.pending < MaxWatches
            /\ startTracking
            /\ UNCHANGED medicalCampusMap
       ELSE /\ stopTracking
            /\ UNCHANGED alerted
    /\ UNCHANGED <<page, location, campusMap, campusMapApp, map, directions,
                   timers, fetches, console, call, shared>>

\* A failure callback that reports the failure and leaves the indicator.
GeoErrorKeepsLoading ==
    /\ page = "medical"
    /\ geolocation.pending > 0
    /\ geolocation' = [geolocation EXCEPT !.pending = @ - 1]
    /\ console' = "Location error:"
    /\ alerted' = "Unable to get your location"
    /\ UNCHANGED <<page, location, campusMap, medicalCampusMap, campusMapApp,
                   dom, map, directions, timers, fetches, call, shared>>

\* The failure callback of startTracking's getCurrentPosition.
GeoError ==
    /\ page = "medical"
    /\ geolocation.pending > 0
    /\ geolocation' = [geolocation EXCEPT !.pending = @ - 1]
    /\ console' = "Location error:"
    /\ alerted' = "Unable to get your location"
    /\ dom' = [dom EXCEPT !.loading.hidden = TRUE]
    /\ UNCHANGED <<page, location, campusMap, medicalCampusMap, campusMapApp,
                   map, directions, timers, fetches, call, shared>>

\* The success callback of startTracking's getCurrentPosition.
GeoSuccess ==
    /\ page = "medical"
    /\ geolocation.pending > 0
    /\ \E p \in AppPositions :
         /\ medicalCampusMap' = [medicalCampusMap EXCEPT
                !.userLocation = p,
                !.userMarker = p,
                !.watchId = geolocation.issued + 1,
                !.trackingEnabled = TRUE]
         /\ map' = [map EXCEPT
                !.camera.center = p,
                !.camera.zoom = 18,
                !.camera.fitted = Null,
                !.userMarkers =
                    IF medicalCampusMap.userMarker # Null
                    THEN (@ - 1) + 1 ELSE @ + 1]
         /\ dom' = [dom EXCEPT
                !.trackingInfo = [ hidden |-> FALSE, location |-> p ],
                !.trackBtn = "Disable GPS Tracking",
                !.loading.hidden = TRUE]
    /\ geolocation' = [geolocation EXCEPT
           !.pending = @ - 1,
           !.issued  = @ + 1,
           !.watches = @ \cup {geolocation.issued + 1}]
    /\ UNCHANGED <<page, location, campusMap, campusMapApp, directions,
                   timers, fetches, alerted, console, call, shared>>

\* A position delivered to a registered watch: onLocationUpdate(pos).
WatchPosition ==
    /\ page = "medical"
    /\ geolocation.watches # {}
    /\ \E p \in AppPositions : onLocationUpdate(p)
    /\ UNCHANGED <<page, location, campusMap, campusMapApp, directions,
                   geolocation, timers, fetches, alerted, console, call,
                   shared>>

\* An error delivered to a registered watch: it is logged.
WatchError ==
    /\ page = "medical"
    /\ geolocation.watches # {}
    /\ console' = "Location error:"
    /\ UNCHANGED <<page, location, campusMap, medicalCampusMap, campusMapApp,
                   dom, map, directions, geolocation, timers, fetches,
                   alerted, call, shared>>

\* clearRoute() removing the layer and the markers but not the source.
clearRouteMapKeepingSource ==
    [map EXCEPT !.layers = @ \ { "route" },
                !.route = Null,
                !.routeMarkers = @ - Len(campusMapApp.routeMarkers.markers)]

\* clearRoute(): the map after it.
clearRouteMap ==
    [map EXCEPT !.layers = @ \ { "route" },
                !.sources = @ \ { "route" },
                !.route = Null,
                !.routeMarkers = @ - Len(campusMapApp.routeMarkers.markers)]

\* clearRoute() removing the markers without emptying this.routeMarkers.
clearRouteMarkersKeepingArray == campusMapApp.routeMarkers

\* clearRoute(): this.routeMarkers after it.
clearRouteMarkers ==
    IF campusMapApp.routeMarkers.defined
    THEN [ defined |-> TRUE, markers |-> <<>> ]
    ELSE campusMapApp.routeMarkers

\* The 'clear-directions-btn' button: clearRoute().  getLayer and getSource
\* find nothing on a map that has no route, loaded or not.
ClearRoute ==
    /\ page = "medical"
    /\ map' = clearRouteMap
    /\ campusMapApp' = [campusMapApp EXCEPT !.routeMarkers = clearRouteMarkers]
    /\ dom' = [dom EXCEPT !.routeInfo.hidden = TRUE]
    /\ UNCHANGED <<page, location, campusMap, medicalCampusMap, directions,
                   geolocation, timers, fetches, alerted, console, call,
                   shared>>

\* clearRoute() with the call recorded as the last one made for the route.
ClearRouteRecorded ==
    /\ page = "medical"
    /\ map' = clearRouteMap
    /\ campusMapApp' = [campusMapApp EXCEPT !.routeMarkers = clearRouteMarkers]
    /\ dom' = [dom EXCEPT !.routeInfo.hidden = TRUE]
    /\ call' = [ fn |-> "clearRoute", arg |-> Null, value |-> Null ]
    /\ UNCHANGED <<page, location, campusMap, medicalCampusMap, directions,
                   geolocation, timers, fetches, alerted, console, shared>>

\* The values of the options populateDropdowns adds for the buildings.
BuildingOptions == { IntToString(id) : id \in BuildingIds }

\* The user picks an option of the 'start-location' dropdown.
SelectStart ==
    /\ page = "medical"
    /\ \E value \in { <<>>, Current } \cup BuildingOptions :
         dom' = [dom EXCEPT !.startLocation = value]
    /\ UNCHANGED <<page, location, campusMap, medicalCampusMap, campusMapApp,
                   map, directions, geolocation, timers, fetches, alerted,
                   console, call, shared>>

\* The user picks an option of the 'end-location' dropdown.
SelectEnd ==
    /\ page = "medical"
    /\ \E value \in { <<>> } \cup BuildingOptions :
         dom' = [dom EXCEPT !.endLocation = value]
    /\ UNCHANGED <<page, location, campusMap, medicalCampusMap, campusMapApp,
                   map, directions, geolocation, timers, fetches, alerted,
                   console, call, shared>>

\* A click on a '.mode-btn' button: switchTransportMode(mode).
SwitchTransportMode ==
    /\ page = "medical"
    /\ \E mode \in { "walking", "cycling", "driving" } :
         campusMapApp' = [campusMapApp EXCEPT !.transportMode = mode]
    /\ UNCHANGED <<page, location, campusMap, medicalCampusMap, dom, map,
                   directions, geolocation, timers, fetches, alerted, console,
                   call, shared>>

\* buildings.find(b => b.id == select.value): the option's text compared
\* with the number as == compares them.
FindByValue(value) == FindById(CAMPUS_DATA.buildings, Number(value) \div 10000)

\* The 'get-directions-btn' button: calculateRoute() up to its await.
\* What calculateRoute() does with the three things it writes, up to its
\* await.
calculateRoute ==
    IF dom.startLocation = <<>> \/ dom.endLocation = <<>>
    THEN /\ alerted' =
                "Please select both starting point and destination"
         /\ UNCHANGED <<dom, fetches>>
    ELSE IF /\ dom.startLocation = Current
            /\ medicalCampusMap.userLocation = Null
    THEN /\ alerted' =
             "Current location not available. Please enable GPS tracking."
         /\ dom' = [dom EXCEPT !.loading.hidden = TRUE]
         /\ UNCHANGED fetches
    ELSE /\ Len(fetches) < MaxFetches
         /\ dom' = [dom EXCEPT !.loading.hidden = FALSE]
         /\ fetches' = Append(fetches,
                [ profile |-> campusMapApp.transportMode,
                  start |-> IF dom.startLocation = Current
                            THEN medicalCampusMap.userLocation
                            ELSE FindByValue(dom.startLocation).coordinates,
                  end |-> FindByValue(dom.endLocation).coordinates ])
         /\ UNCHANGED alerted

CalculateRoute ==
    /\ page = "medical"
    /\ calculateRoute
    /\ UNCHANGED <<page, location, campusMap, medicalCampusMap, campusMapApp,
                   map, directions, geolocation, timers, console, call,
                   shared>>

\* calculateRoute() with a request it issues recorded as the last call made
\* for the route.
CalculateRouteRecorded ==
    /\ page = "medical"
    /\ calculateRoute
    /\ call' = IF Len(fetches') > Len(fetches)
               THEN [ fn |-> "calculateRoute", arg |-> Null,
                      value |-> fetches'[Len(fetches')] ]
               ELSE call
    /\ UNCHANGED <<page, location, campusMap, medicalCampusMap, campusMapApp,
                   map, directions, geolocation, timers, console, shared>>

\* The sequence without its i-th element.
RemoveAt(seq, i) ==
    [ j \in 1..(Len(seq) - 1) |-> IF j < i THEN seq[j] ELSE seq[j + 1] ]

\* The catch block of calculateRoute without the finally block.
calculateRouteCatchOnly ==
    /\ console' = "Error calculating route:"
    /\ alerted' = "Failed to calculate route. Please try again."
    /\ dom' = dom

\* The catch and finally blocks of calculateRoute.
calculateRouteCatch ==
    /\ console' = "Error calculating route:"
    /\ alerted' = "Failed to calculate route. Please try again."
    /\ dom' = [dom EXCEPT !.loading.hidden = TRUE]

\* The directions service answers with a route: displayRoute and
\* showRouteInfo; displayRoute throws where the map's style is not loaded.
FetchResolve ==
    /\ page = "medical"
    /\ \E i \in 1..Len(fetches) :
         /\ fetches' = RemoveAt(fetches, i)
         /\ IF ~map.loaded
            THEN /\ calculateRouteCatch
                 /\ UNCHANGED <<map, campusMapApp>>
            ELSE /\ map' = [clearRouteMap EXCEPT
                        !.sources = @ \cup { "route" },
                        !.layers = @ \cup { "route" },
                        !.route = fetches[i],
                        !.routeMarkers = @ + 2,
                        !.camera.fitted = << fetches[i].start,
                                             fetches[i].end >>]
                 /\ campusMapApp' = [campusMapApp EXCEPT !.routeMarkers =
                        [ defined |-> TRUE,
                          markers |-> << fetches[i].start,
                                         fetches[i].end >> ]]
                 /\ dom' = [dom EXCEPT
                        !.routeInfo = [ hidden |-> FALSE,
                                        mode |-> campusMapApp.transportMode ],
                        !.loading.hidden = TRUE]
                 /\ UNCHANGED <<alerted, console>>
    /\ UNCHANGED <<page, location, campusMap, medicalCampusMap, directions,
                   geolocation, timers, call, shared>>

\* The directions service answers without a route: fetchRoute returns null.
FetchNoRoute ==
    /\ page = "medical"
    /\ \E i \in 1..Len(fetches) : fetches' = RemoveAt(fetches, i)
    /\ dom' = [dom EXCEPT !.loading.hidden = TRUE]
    /\ UNCHANGED <<page, location, campusMap, medicalCampusMap, campusMapApp,
                   map, directions, geolocation, timers, alerted, console,
                   call, shared>>

\* A catch block that clears the route the failure could not replace.
FetchRejectClearingRoute ==
    /\ page = "medical"
    /\ \E i \in 1..Len(fetches) : fetches' = RemoveAt(fetches, i)
    /\ calculateRouteCatch
    /\ map' = [map EXCEPT !.layers = @ \ { "route" },
                          !.sources = @ \ { "route" },
                          !.route = Null]
    /\ UNCHANGED <<page, location, campusMap, medicalCampusMap, campusMapApp,
                   directions, geolocation, timers, call, shared>>

\* The request fails, or its answer is not JSON: the await throws.
FetchReject ==
    /\ page = "medical"
    /\ \E i \in 1..Len(fetches) : fetches' = RemoveAt(fetches, i)
    /\ calculateRouteCatch
    /\ UNCHANGED <<page, location, campusMap, medicalCampusMap, campusMapApp,
                   map, directions, geolocation, timers, call, shared>>

\* The texts typed into the search field in the model.
SearchQueries == { <<>>, <<"o">>, <<"A">>, <<"2">>, <<"z">> }

\* The data-category values of the '.category-btn' buttons.
Categories == { "all", "clinical", "academic", "admin" }

\* The first n elements of a sequence.
Slice(seq, n) == SubSeq(seq, 1, IF Len(seq) < n THEN Len(seq) ELSE n)

\* An 'input' event of the search field: handleSearch(query).
HandleSearch ==
    /\ page = "medical"
    /\ \E query \in SearchQueries :
         /\ campusMapApp' = [campusMapApp EXCEPT !.searchQuery = query]
         /\ dom' = [dom EXCEPT
                !.searchInput = query,
                !.searchResults =
                    IF query = <<>> THEN <<>>
                    ELSE Slice(FilterFrom(CAMPUS_DATA.buildings, "all",
                                          query, 1), 5),
                !.buildingList =
                    populateBuildingList(campusMapApp.currentCategory, query)]
    /\ UNCHANGED <<page, location, campusMap, medicalCampusMap, map,
                   directions, geolocation, timers, fetches, alerted, console,
                   call, shared>>

\* A click on a '.category-btn' button: filterByCategory(category).
FilterByCategory ==
    /\ page = "medical"
    /\ \E category \in Categories :
         /\ campusMapApp' = [campusMapApp EXCEPT !.currentCategory = category]
         /\ dom' = [dom EXCEPT !.buildingList =
                populateBuildingList(category, campusMapApp.searchQuery)]
    /\ UNCHANGED <<page, location, campusMap, medicalCampusMap, map,
                   directions, geolocation, timers, fetches, alerted, console,
                   call, shared>>

\* navigateToBuilding(buildingId), goToBuilding included.
navigateToBuilding(buildingId) ==
    /\ page = "medical"
    /\ Len(timers) < MaxTimers
    /\ LET building == FindById(CAMPUS_DATA.buildings, buildingId)
       IN  IF building = Null
           THEN UNCHANGED <<dom, map, timers>>
           ELSE /\ dom' = [dom EXCEPT
                       !.endLocation = IntToString(buildingId),
                       !.startLocation =
                           IF medicalCampusMap.userLocation # Null
                           THEN Current ELSE @]
                /\ goToBuilding(buildingId, timers)
    /\ UNCHANGED <<page, location, campusMap, medicalCampusMap, campusMapApp,
                   directions, geolocation, fetches, alerted, console, call,
                   shared>>

\* The Navigate button of an open popup: navigateToBuilding(building.id).
PopupNavigate ==
    \E i \in 1..Len(medicalCampusMap.markers) :
        /\ medicalCampusMap.markers[i].buildingData # Null
        /\ medicalCampusMap.markers[i].popup
        /\ navigateToBuilding(medicalCampusMap.markers[i].buildingData.id)

\* The ids window.campusMapApp's functions are called with in the model:
\* the ids of the data, one no building carries, and NaN.
CallIds == BuildingIds \cup { 7, NaN }

\* A call of window.campusMapApp.navigateToBuilding(id).
CallNavigateToBuilding == \E id \in CallIds : navigateToBuilding(id)

\* A call of window.campusMapApp.shareBuilding(id).
CallShareBuilding == \E id \in CallIds : shareBuilding(id)

\* The page opened without a query.
InitPlain == InitApp /\ location = <<>>

\* The user picks the first building as the start of the route.
SelectStartBuilding == SelectStart /\ dom'.startLocation = IntToString(1)

\* The user picks the second building as the end of the route.
SelectEndBuilding == SelectEnd /\ dom'.endLocation = IntToString(2)

NextRoute ==
    \/ MapLoad
    \/ MapIdle
    \/ SelectStart
    \/ SelectEndBuilding
    \/ CalculateRoute
    \/ FetchResolve
    \/ FetchNoRoute
    \/ FetchReject
    \/ ClearRoute

\* Directions asked for on foot, displayed and cleared.
SpecRoute == InitPlain /\ [][NextRoute]_vars

NextMode ==
    \/ MapLoad
    \/ SelectStartBuilding
    \/ SelectEndBuilding
    \/ SwitchTransportMode
    \/ CalculateRoute
    \/ FetchResolve
    \/ ClearRoute

\* Directions between two buildings while the transport mode is switched.
SpecMode == InitPlain /\ [][NextMode]_vars

NextLatest ==
    \/ MapLoad
    \/ SelectStartBuilding
    \/ SelectEnd
    \/ CalculateRouteRecorded
    \/ FetchResolve
    \/ ClearRouteRecorded

\* Requests for directions that all come back with a route, and clearRoute,
\* the last of these calls recorded.
SpecLatest == InitPlain /\ [][NextLatest]_vars

\* A request for directions that is in flight settles.
FetchSettles == FetchResolve \/ FetchNoRoute \/ FetchReject

NextSettle ==
    \/ MapLoad
    \/ MapIdle
    \/ SelectStart
    \/ SelectEndBuilding
    \/ CalculateRoute
    \/ FetchResolve
    \/ FetchNoRoute
    \/ FetchReject

\* Requests for directions, each of which settles in the end.
SpecRouteFair == InitPlain /\ [][NextSettle]_vars /\ WF_vars(FetchSettles)

NextTrack ==
    \/ MapLoad
    \/ MapIdle
    \/ ToggleTracking
    \/ GeoSuccess
    \/ GeoError
    \/ SelectStart
    \/ SelectEnd
    \/ CalculateRoute
    \/ FetchResolve

\* Tracking switched on and off while directions are asked for and shown.
SpecTrack == InitPlain /\ [][NextTrack]_vars

NextSearch ==
    \/ MapLoad
    \/ MapIdle
    \/ ToggleTracking
    \/ GeoSuccess
    \/ GeoError
    \/ WatchPosition
    \/ WatchError
    \/ HandleSearch
    \/ FilterByCategory

\* Tracking switched on and off while the building list is searched and
\* filtered.
SpecSearch == InitPlain /\ [][NextSearch]_vars

NextLink ==
    \/ MapLoad
    \/ MapIdle
    \/ UrlGoToBuilding
    \/ UrlFlyTo
    \/ TogglePopupTimer
    \/ ClickBuildingItem
    \/ ClickMarker
    \/ ShareBuilding
    \/ CloseShareModal
    \/ OpenShareLink

\* The page "medical" opened with a query, looked at, a building shared and
\* the link opened.
SpecLink == InitApp /\ [][NextLink]_vars

NextShare ==
    \/ MapLoad
    \/ MapIdle
    \/ UrlGoToBuilding
    \/ UrlFlyTo
    \/ TogglePopupTimer
    \/ ToggleTracking
    \/ GeoSuccess
    \/ GeoError
    \/ WatchPosition
    \/ WatchError
    \/ ShareCurrentLocation
    \/ CloseShareModal
    \/ OpenShareLink

\* The page "medical" opened with a query, the user located, the location
\* shared and the link opened.
SpecShare == InitApp /\ [][NextShare]_vars

\* Either page, the user located and the location shared.
SpecSharing == (Init3D \/ InitApp) /\ [][NextLocate3D \/ NextShare]_vars

\* Buildings looked up by id on both pages, known ids and unknown ones.
NextIds ==
    \/ MapLoad3D
    \/ GeoSuccess3D
    \/ NavigateToBuilding3D
    \/ MapLoad
    \/ UrlGoToBuilding
    \/ UrlFlyTo
    \/ TogglePopupTimer
    \/ CallNavigateToBuilding
    \/ CallShareBuilding
    \/ CloseShareModal

SpecIds == (Init3D \/ InitApp) /\ [][NextIds]_vars

-----------------------------------------------------------------------------
(* Page "medical": the floating controls of the map.                       *)

\* toggle3DBuildings() with the pitch left to the camera.
toggle3DBuildingsKeepingPitch(app, m) ==
    LET is3DEnabled == ~app.is3DEnabled
    IN  [ app |-> [app EXCEPT !.is3DEnabled = is3DEnabled],
          map |-> [m EXCEPT
                     !.visibility =
                         IF "3d-buildings" \in m.layers
                         THEN IF is3DEnabled THEN "visible" ELSE "none"
                         ELSE @] ]

\* toggle3DBuildings(): the MedicalCampusMap and its map afterwards.
toggle3DBuildings(app, m) ==
    LET is3DEnabled == ~app.is3DEnabled
    IN  [ app |-> [app EXCEPT !.is3DEnabled = is3DEnabled],
          map |-> [m EXCEPT
                     !.camera.pitch = IF is3DEnabled THEN 45 ELSE 0,
                     !.visibility =
                         IF "3d-buildings" \in m.layers
                         THEN IF is3DEnabled THEN "visible" ELSE "none"
                         ELSE @] ]

\* A click on the 'toggle-3d-btn' button.
Toggle3DBuildings ==
    /\ page = "medical"
    /\ medicalCampusMap' = toggle3DBuildings(medicalCampusMap, map).app
    /\ map' = toggle3DBuildings(medicalCampusMap, map).map
    /\ UNCHANGED <<page, location, campusMap, campusMapApp, dom, directions,
                   geolocation, timers, fetches, alerted, console, call,
                   shared>>

\* A click on the 'toggle-labels-btn' button: toggleLabels().
ToggleLabels ==
    /\ page = "medical"
    /\ medicalCampusMap' = [medicalCampusMap EXCEPT
           !.labelsVisible = ~@,
           !.markers = [ i \in 1..Len(@) |->
                           [@[i] EXCEPT !.display =
                                IF ~medicalCampusMap.labelsVisible
                                THEN "block" ELSE "none"] ]]
    /\ UNCHANGED <<page, location, campusMap, campusMapApp, dom, map,
                   directions, geolocation, timers, fetches, alerted, console,
                   call, shared>>

\* A click on the 'center-campus-btn' button: centerOnCampus().
CenterOnCampus ==
    /\ page = "medical"
    /\ map' = [map EXCEPT !.camera = [ center |-> CAMPUS_DATA.center,
                                       zoom |-> CAMPUS_DATA.zoom,
                                       pitch |-> 45, bearing |-> 0,
                                       fitted |-> Null ]]
    /\ UNCHANGED <<page, location, campusMap, medicalCampusMap, campusMapApp,
                   dom, directions, geolocation, timers, fetches, alerted,
                   console, call, shared>>

\* The floating controls beside the markers, goToBuilding and tracking.
NextView ==
    \/ MapLoad
    \/ MapIdle
    \/ Toggle3DBuildings
    \/ ToggleLabels
    \/ CenterOnCampus
    \/ ClickBuildingItem
    \/ TogglePopupTimer
    \/ ClickMarker
    \/ ToggleTracking
    \/ GeoSuccess

SpecView == InitPlain /\ [][NextView]_vars

-----------------------------------------------------------------------------
(* Page "campus-map": the layer checkboxes of CampusMap3D.                 *)

\* toggleParkingVisibility with the test "the element has any text".
toggleParkingVisibilityAnyIcon(markers, visible) ==
    [ i \in 1..Len(markers) |->
        IF markers[i].innerHTML # <<>>
        THEN [markers[i] EXCEPT !.display =
                  IF visible THEN "block" ELSE "none"]
        ELSE markers[i] ]

\* toggleParkingVisibility(visible): this.markers afterwards.
toggleParkingVisibility(markers, visible) ==
    [ i \in 1..Len(markers) |->
        IF includes(markers[i].innerHTML, ParkingIcon)
        THEN [markers[i] EXCEPT !.display =
                  IF visible THEN "block" ELSE "none"]
        ELSE markers[i] ]

\* The change listener of the 'toggle-parking' checkbox.
ToggleParking ==
    /\ page = "campus-map"
    /\ dom' = [dom EXCEPT !.toggleParking = ~@]
    /\ campusMap' = [campusMap EXCEPT !.markers =
                         toggleParkingVisibility(@, ~dom.toggleParking)]
    /\ UNCHANGED <<page, location, medicalCampusMap, campusMapApp, map,
                   directions, geolocation, timers, fetches, alerted, console,
                   call, shared>>

\* showAccessibilityRoutes(): the map afterwards.  Before the style has
\* loaded getSource finds nothing and addSource throws, so the map is left
\* as it was.
showAccessibilityRoutes(m) ==
    IF "accessible-routes" \notin m.sources
    THEN IF m.loaded
         THEN [m EXCEPT !.sources = @ \cup {"accessible-routes"},
                        !.layers = @ \cup {"accessible-routes-layer"}]
         ELSE m
    ELSE m

\* hideAccessibilityRoutes(): the map afterwards.
hideAccessibilityRoutes(m) ==
    IF "accessible-routes-layer" \in m.layers
    THEN [m EXCEPT !.layers = @ \ {"accessible-routes-layer"},
                   !.sources = @ \ {"accessible-routes"}]
    ELSE m

\* The change listener of the 'toggle-accessibility' checkbox.
ToggleAccessibility ==
    /\ page = "campus-map"
    /\ dom' = [dom EXCEPT !.toggleAccessibility = ~@]
    /\ map' = IF ~dom.toggleAccessibility
              THEN showAccessibilityRoutes(map)
              ELSE hideAccessibilityRoutes(map)
    /\ UNCHANGED <<page, location, campusMap, medicalCampusMap, campusMapApp,
                   directions, geolocation, timers, fetches, alerted, console,
                   call, shared>>

\* The layer checkboxes beside the markers that tracking and sharing add.
NextLayers3D ==
    \/ MapLoad3D
    \/ ToggleParking
    \/ ToggleAccessibility
    \/ GeoSuccess3D
    \/ ToggleTracking3D
    \/ ShareLocation3D
    \/ ReceiveSharedLocation

SpecLayers3D == Init3D /\ [][NextLayers3D]_vars

-----------------------------------------------------------------------------
(* Claims about the campus data and its rendering (SpecData3D).            *)

\* The mapping the colour claim states.
ClaimedColor(type) ==
    CASE type = "academic"       -> "#4285f4"
      [] type = "library"        -> "#34a853"
      [] type = "administrative" -> "#fbbc04"
      [] type = "amenity"        -> "#ea4335"
      [] OTHER                   -> "#999999"

\* C1: getBuildingColor is total: every type value gets the colour of its
\* category, any other value #999999, and that is the colour the
\* 'campus-buildings-3d' layer paints the type with.
C1_ColorTotal ==
    /\ (call # Null /\ call.fn = "getBuildingColor") =>
          /\ call.value = ClaimedColor(call.arg)
          /\ call.value = FillExtrusionColor(call.arg)
    /\ \A i \in 1..Len(map.fillExtrusionColor) :
          \E m \in Range(campusMap.markers) :
             /\ m.kind = "building"
             /\ m.id = map.fillExtrusionColor[i].id
             /\ m.backgroundColor = map.fillExtrusionColor[i].color

AllRecords ==
    SAMPLE_CAMPUS_DATA.buildings \o SAMPLE_CAMPUS_DATA.parkingLots
        \o SAMPLE_CAMPUS_DATA.shuttleStops

\* C2: no two records of SAMPLE_CAMPUS_DATA share an id, and the building
\* navigateToBuilding(id) finds is the only building with that id.
C2_IdsUnique ==
    /\ \A i, j \in 1..Len(AllRecords) :
          AllRecords[i].id = AllRecords[j].id => i = j
    /\ (call # Null /\ call.fn = "navigateToBuilding") =>
          /\ CountId(AllRecords, call.arg) <= 1
          /\ call.value # Null =>
                /\ call.value.id = call.arg
                /\ map.camera.center = call.value.coordinates
                /\ \A b \in Range(SAMPLE_CAMPUS_DATA.buildings) :
                      b.id = call.arg => b = call.value

\* A lookup by id found a building and the camera flew to it.
C2_Witness ==
    /\ call # Null
    /\ call.fn = "navigateToBuilding"
    /\ call.value # Null
    /\ call.arg = "library"
    /\ map.camera.center = <<-1224200, 377755>>

ValidLngLat(c) ==
    /\ c[1] >= -1800000 /\ c[1] <= 1800000
    /\ c[2] >= -900000  /\ c[2] <= 900000

InCampusBounds(c) ==
    /\ c[1] >= CONFIG.campusBounds[1][1] /\ c[1] <= CONFIG.campusBounds[2][1]
    /\ c[2] >= CONFIG.campusBounds[1][2] /\ c[2] <= CONFIG.campusBounds[2][2]

\* C3: every hardcoded coordinate pair is a valid [longitude, latitude]
\* pair, every SAMPLE_CAMPUS_DATA coordinate lies inside
\* CONFIG.campusBounds, and so does every marker placed from the data.
C3_CoordinatesValid ==
    /\ \A i \in 1..Len(AllRecords) :
          /\ ValidLngLat(AllRecords[i].coordinates)
          /\ InCampusBounds(AllRecords[i].coordinates)
    /\ ValidLngLat(CONFIG.defaultCenter)
    /\ ValidLngLat(CONFIG.campusBounds[1])
    /\ ValidLngLat(CONFIG.campusBounds[2])
    /\ \A i \in 1..Len(CampusBoundary) : ValidLngLat(CampusBoundary[i])
    /\ \A i \in 1..Len(campusMap.markers) :
          /\ ValidLngLat(campusMap.markers[i].lngLat)
          /\ InCampusBounds(campusMap.markers[i].lngLat)

\* The map has loaded and a marker stands at every record's coordinates.
C3_Witness ==
    /\ map.loaded
    /\ Len(campusMap.markers) = Len(AllRecords)
    /\ \A i \in 1..Len(AllRecords) :
          campusMap.markers[i].lngLat = AllRecords[i].coordinates

-----------------------------------------------------------------------------
(* Claims about location tracking of CampusMap3D (SpecLocate3D).           *)

\* C6: whenever a building is within 50 metres of the user location,
\* 'travel-info' names as nearby the building with the smallest distance
\* to the user.
C6_NearestReported ==
    (/\ campusMap.userLocation # Null
     /\ \E b \in Range(SAMPLE_CAMPUS_DATA.buildings) :
           Within(campusMap.userLocation, b.coordinates))
    => \E b \in Range(SAMPLE_CAMPUS_DATA.buildings) :
          /\ dom.travelInfo = <<"Nearby:", b.name>>
          /\ \A c \in Range(SAMPLE_CAMPUS_DATA.buildings) :
                distance2(campusMap.userLocation, b.coordinates)
                    <= distance2(campusMap.userLocation, c.coordinates)

\* C10: when the initial position request fails, userLocation becomes
\* CONFIG.defaultCenter and a user marker stands there; from then on
\* userLocation stays known, so sharing and directions have an origin.
C10_FallbackCoordinates ==
    /\ [][GeoError3D =>
            /\ campusMap'.userLocation = CONFIG.defaultCenter
            /\ campusMap'.userMarker = CONFIG.defaultCenter
            /\ dom'.currentLocation = CONFIG.defaultCenter
            /\ map'.userMarkers = 1]_vars
    /\ [][campusMap.userLocation # Null =>
            campusMap'.userLocation # Null]_vars
    /\ [][(ShareLocation3D /\ campusMap.userLocation # Null) =>
            /\ campusMap'.shareCode \in ShareCodes
            /\ dom'.shareCodeDisplay = "block"
            /\ UNCHANGED alerted]_vars

\* The position request failed, the fallback is in place, and a share code
\* was then generated from it.
C10_Witness ==
    /\ console = "Error getting location:"
    /\ campusMap.userLocation = CONFIG.defaultCenter
    /\ campusMap.userMarker = CONFIG.defaultCenter
    /\ map.userMarkers = 1
    /\ campusMap.shareCode \in ShareCodes

-----------------------------------------------------------------------------
(* Claims about the URL query and the share links.                         *)

IsUrlTimer(t) == t.fn \in { "goToBuilding", "flyTo" }

UrlTimers(queue) == SelectSeq(queue, IsUrlTimer)

\* What one page load schedules when a parameter counts once it is present.
ScheduledIfPresent(search) ==
    IF URLSearchParamsHas(search, "building")
    THEN << [ fn |-> "goToBuilding",
              arg |-> parseInt(URLSearchParamsGet(search, "building")) ] >>
    ELSE IF URLSearchParamsHas(search, "coords")
    THEN << [ fn |-> "flyTo",
              center |-> ParseCoords(URLSearchParamsGet(search, "coords")) ] >>
    ELSE <<>>

\* What one page load schedules when a parameter counts once it is present
\* and not empty.
ScheduledIfNotEmpty(search) ==
    IF URLSearchParamsGet(search, "building") # <<>>
    THEN << [ fn |-> "goToBuilding",
              arg |-> parseInt(URLSearchParamsGet(search, "building")) ] >>
    ELSE IF URLSearchParamsGet(search, "coords") # <<>>
    THEN << [ fn |-> "flyTo",
              center |-> ParseCoords(URLSearchParamsGet(search, "coords")) ] >>
    ELSE <<>>

\* After the page has loaded nothing writes the URL or schedules a second
\* navigation from it, and the navigation scheduled is the one carried out.
UrlReadOnce ==
    /\ [][~OpenShareLink =>
            /\ location' = location
            /\ Len(UrlTimers(timers')) <= Len(UrlTimers(timers))]_vars
    /\ [][UrlFlyTo =>
            map'.camera.center =
                ParseCoords(URLSearchParamsGet(location, "coords"))]_vars
    /\ [][UrlGoToBuilding =>
            LET id == parseInt(URLSearchParamsGet(location, "building"))
                building == FindById(CAMPUS_DATA.buildings, id)
            IN  IF building = Null
                THEN map' = map
                ELSE map'.camera.center = building.coordinates]_vars

\* C4 as stated: the URL query is read once, at init: a 'building'
\* parameter that is present schedules goToBuilding(parseInt(building)) and
\* 'coords' is ignored, otherwise a 'coords' parameter that is present
\* schedules the flight to that pair, otherwise nothing is scheduled; no
\* later operation reads or writes the URL.
C4_UrlPresentReadOnce ==
    /\ timers = ScheduledIfPresent(location)
    /\ [][OpenShareLink => timers' = ScheduledIfPresent(location')]_vars
    /\ UrlReadOnce

\* C4 as amended: the same with "present and not empty" for "present".
C4_UrlNotEmptyReadOnce ==
    /\ timers = ScheduledIfNotEmpty(location)
    /\ [][OpenShareLink => timers' = ScheduledIfNotEmpty(location')]_vars
    /\ UrlReadOnce

\* A page opened with both parameters has flown to the building and has
\* nothing left scheduled.
C4_Witness ==
    /\ page = "medical"
    /\ URLSearchParamsGet(location, "building") = <<"1">>
    /\ URLSearchParamsHas(location, "coords")
    /\ timers = <<>>
    /\ map.camera.center = CAMPUS_DATA.buildings[1].coordinates
    /\ map.camera.zoom = 19

OpenedFrom(kind) ==
    /\ page = "medical"
    /\ shared.opened # Null
    /\ shared.opened.kind = kind

\* The link of shareBuilding(id), opened, schedules goToBuilding(id), which
\* flies to the building and has its popup shown.
BuildingLinkRoundTrip ==
    /\ [][OpenShareLink /\ shared.made.kind = "building" =>
            timers' = << [ fn |-> "goToBuilding",
                           arg |-> shared.made.id ] >>]_vars
    /\ [][UrlGoToBuilding /\ OpenedFrom("building") =>
            /\ map'.camera.center =
                   FindById(CAMPUS_DATA.buildings,
                            shared.opened.id).coordinates
            /\ \E i \in 1..Len(timers') :
                 /\ timers'[i].fn = "togglePopup"
                 /\ medicalCampusMap.markers[timers'[i].marker]
                        .buildingData.id = shared.opened.id]_vars
    /\ [][TogglePopupTimer /\ OpenedFrom("building") =>
            LET marker == Head(timers).marker
            IN  medicalCampusMap.markers[marker].buildingData.id
                    = shared.opened.id
                => medicalCampusMap'.markers[marker].popup]_vars

\* The link of shareCurrentLocation, opened, flies to the user location the
\* link was made from.
CoordinateLinkRoundTrip ==
    /\ [][OpenShareLink /\ shared.made.kind = "coords" =>
            timers' = << [ fn |-> "flyTo",
                           center |-> shared.made.lngLat ] >>]_vars
    /\ [][UrlFlyTo /\ OpenedFrom("coords") =>
            map'.camera.center = shared.opened.lngLat]_vars

\* C5: share links round-trip: the link of shareBuilding(id) makes the
\* opened page call goToBuilding(id), fly to that building and show its
\* popup; the link of shareCurrentLocation makes it fly to the [lng, lat]
\* that was the user location when the link was made.
C5_ShareLinksRoundTrip ==
    /\ BuildingLinkRoundTrip
    /\ CoordinateLinkRoundTrip

\* A coordinate link has been opened and flown to.
CoordinateLinkOpened ==
    /\ OpenedFrom("coords")
    /\ timers = <<>>
    /\ map.camera.center = shared.opened.lngLat
    /\ map.camera.zoom = 18

\* C9: sharing without a known user location only raises an alert:
\* shareCurrentLocation leaves the share modal and the share-link field as
\* they are, shareLocation leaves shareCode and the share-code element as
\* they are and schedules nothing.
C9_ShareWithoutLocationOnlyAlerts ==
    /\ [][(ShareCurrentLocation /\ medicalCampusMap.userLocation = Null) =>
            /\ alerted' = "Please enable GPS tracking first"
            /\ dom'.shareModal.hidden = dom.shareModal.hidden
            /\ dom'.shareLink = dom.shareLink
            /\ UNCHANGED <<page, location, campusMap, medicalCampusMap,
                           campusMapApp, dom, map, directions, geolocation,
                           timers, fetches, console>>]_vars
    /\ [][(ShareLocation3D /\ campusMap.userLocation = Null) =>
            /\ alerted' = "Location not available"
            /\ campusMap'.shareCode = campusMap.shareCode
            /\ dom'.shareCodeDisplay = dom.shareCodeDisplay
            /\ dom'.shareCodeDisplay = "none"
            /\ timers' = timers
            /\ UNCHANGED <<page, location, campusMap, medicalCampusMap,
                           campusMapApp, dom, map, directions, geolocation,
                           timers, fetches, console>>]_vars

\* The alert of shareCurrentLocation is up on a page whose user is not
\* located, with the share modal hidden and no link made.
C9_Witness ==
    /\ page = "medical"
    /\ medicalCampusMap.userLocation = Null
    /\ alerted = "Please enable GPS tracking first"
    /\ dom.shareModal.hidden
    /\ dom.shareLink = <<>>

-----------------------------------------------------------------------------
(* Claims about failures.                                                  *)

\* What a failure to locate the user must leave alone: the tracking flag,
\* the watches, the button label, the user location, the displayed route,
\* the category filter and the search query.
TrackingFailureFrame ==
    /\ medicalCampusMap' = medicalCampusMap
    /\ ~medicalCampusMap.trackingEnabled => ~medicalCampusMap'.trackingEnabled
    /\ geolocation'.watches = geolocation.watches
    /\ dom'.trackBtn = dom.trackBtn
    /\ map' = map
    /\ dom'.routeInfo = dom.routeInfo
    /\ campusMapApp' = campusMapApp

\* toggleTracking() where tracking is off and the browser has no geolocation.
StartTrackingUnsupported ==
    /\ ToggleTracking
    /\ ~medicalCampusMap.trackingEnabled
    /\ ~geolocation.supported

\* C7 as stated: when the position request of startTracking fails, or
\* geolocation is unsupported, the user is alerted, the loading indicator is
\* hidden, trackingEnabled stays false, no watch is registered, and the
\* button label, userLocation, the displayed route, the category filter and
\* the search query are unchanged.
C7_FailureHidesLoading ==
    /\ [][GeoError =>
            /\ alerted' = "Unable to get your location"
            /\ dom'.loading.hidden
            /\ TrackingFailureFrame]_vars
    /\ [][StartTrackingUnsupported =>
            /\ alerted' = "Geolocation is not supported by your browser"
            /\ dom'.loading.hidden
            /\ TrackingFailureFrame]_vars

\* C7 as amended: the same, with the loading indicator hidden after a failed
\* position request and left as it was where geolocation is unsupported.
C7_FailureTerminalToTracking ==
    /\ [][GeoError =>
            /\ alerted' = "Unable to get your location"
            /\ dom'.loading.hidden
            /\ TrackingFailureFrame]_vars
    /\ [][StartTrackingUnsupported =>
            /\ alerted' = "Geolocation is not supported by your browser"
            /\ dom'.loading = dom.loading
            /\ TrackingFailureFrame]_vars

\* The position request has failed on a page that is searched and filtered
\* and has located the user before: the alert is up, the indicator hidden,
\* tracking off and unwatched, the location, the filter and the query kept.
C7_Witness ==
    /\ page = "medical"
    /\ alerted = "Unable to get your location"
    /\ console = "Location error:"
    /\ dom.loading.hidden
    /\ ~medicalCampusMap.trackingEnabled
    /\ medicalCampusMap.userLocation # Null
    /\ geolocation.watches = {}
    /\ geolocation.pending = 0
    /\ campusMapApp.currentCategory = "clinical"
    /\ campusMapApp.searchQuery = <<"o">>
    /\ dom.buildingList = <<1>>

\* The position request has failed with a route on display.
TrackingFailedBesideRoute ==
    /\ page = "medical"
    /\ alerted = "Unable to get your location"
    /\ console = "Location error:"
    /\ dom.loading.hidden
    /\ ~medicalCampusMap.trackingEnabled
    /\ geolocation.watches = {}
    /\ geolocation.pending = 0
    /\ map.route # Null
    /\ ~dom.routeInfo.hidden

\* The route on display: layer, source, markers and panel.
RouteArtifacts ==
    << map.route, map.layers, map.sources, map.routeMarkers,
       campusMapApp.routeMarkers, dom.routeInfo >>

\* calculateRoute() returning before it asks for a route.
CalculateRouteRefused ==
    /\ CalculateRoute
    /\ \/ dom.startLocation = <<>>
       \/ dom.endLocation = <<>>
       \/ /\ dom.startLocation = Current
          /\ medicalCampusMap.userLocation = Null

\* C8: a failed route calculation leaves the displayed route untouched: on
\* every failing path of calculateRoute (nothing selected, start 'current'
\* without a user location, the fetch rejecting, the service returning no
\* route) the 'route' layer and source, the route markers and the route-info
\* panel are as before, and no new request is issued.
C8_FailedRouteLeavesRoute ==
    [][(CalculateRouteRefused \/ FetchReject \/ FetchNoRoute) =>
          /\ RouteArtifacts' = RouteArtifacts
          /\ Len(fetches') <= Len(fetches)
          /\ timers' = timers]_vars

\* A request has failed with an earlier route still on display.
C8_Witness ==
    /\ page = "medical"
    /\ alerted = "Failed to calculate route. Please try again."
    /\ console = "Error calculating route:"
    /\ fetches = <<>>
    /\ map.route # Null
    /\ "route" \in map.layers
    /\ map.routeMarkers = 2
    /\ ~dom.routeInfo.hidden

-----------------------------------------------------------------------------
(* Claims about the layer checkboxes and the 3D view of CampusMap3D.       *)

\* The markers of one kind in this.markers.
MarkersOfKind(markers, kind) ==
    { i \in 1..Len(markers) : markers[i].kind = kind }

\* C11: a change of the 'toggle-parking' checkbox, which calls
\* toggleParkingVisibility(checked), sets the display of every parking-lot
\* marker to "block" when checked and to "none" when not, and leaves every
\* building marker, shuttle-stop marker, the user marker and the
\* shared-location markers as they were.
C11_ParkingToggleFrame ==
    [][ (page = "campus-map" /\ dom'.toggleParking # dom.toggleParking)
        => /\ Len(campusMap'.markers) = Len(campusMap.markers)
           /\ \A i \in 1..Len(campusMap.markers) :
                IF campusMap.markers[i].kind = "parking"
                THEN campusMap'.markers[i] =
                       [campusMap.markers[i] EXCEPT !.display =
                            IF dom'.toggleParking THEN "block" ELSE "none"]
                ELSE campusMap'.markers[i] = campusMap.markers[i]
           /\ campusMap'.userMarker = campusMap.userMarker
           /\ campusMap'.sharedLocations = campusMap.sharedLocations
           /\ map' = map ]_vars

\* Parking markers hidden by the checkbox while building and shuttle-stop
\* markers, a user marker and a shared-location marker are on the map.
C11_Witness ==
    /\ page = "campus-map"
    /\ map.loaded
    /\ ~dom.toggleParking
    /\ MarkersOfKind(campusMap.markers, "parking") # {}
    /\ \A i \in MarkersOfKind(campusMap.markers, "parking") :
         campusMap.markers[i].display = "none"
    /\ \E i \in MarkersOfKind(campusMap.markers, "building") :
         campusMap.markers[i].display = ""
    /\ \E i \in MarkersOfKind(campusMap.markers, "shuttle") :
         campusMap.markers[i].display = ""
    /\ campusMap.userMarker # Null
    /\ map.sharedMarkers > 0

\* The pitch and bearing a camera command gives the map while is3D holds.
ViewOf(is3D) ==
    IF is3D THEN <<CONFIG.defaultPitch, CONFIG.defaultBearing>>
    ELSE <<0, 0>>

\* The camera's pitch and bearing are those of the current is3D.
CameraFollowsIs3D ==
    page = "campus-map"
    => <<map.camera.pitch, map.camera.bearing>> = ViewOf(campusMap.is3D)

\* Once toggle3D has run, the button reads '2D View' exactly when is3D.
LabelFollowsIs3D ==
    (page = "campus-map" /\ dom.toggle3d # "Toggle 3D")
    => (dom.toggle3d = "2D View" <=> campusMap.is3D)

\* What two toggle3D calls in a row leave of is3D and of a button text.
Toggle3DTwice(is3D, textContent) ==
    LET once  == toggle3D(is3D)
        twice == toggle3D(once.is3D)
    IN  [ is3D |-> twice.is3D, textContent |-> twice.textContent ]

\* C12 as stated: the camera follows is3D, the label follows is3D after the
\* first toggle3D, and two toggle3D calls in a row restore is3D and the
\* label from every reachable state.
C12_TwoTogglesRestoreLabel ==
    /\ CameraFollowsIs3D
    /\ LabelFollowsIs3D
    /\ page = "campus-map"
       => Toggle3DTwice(campusMap.is3D, dom.toggle3d)
            = [ is3D |-> campusMap.is3D, textContent |-> dom.toggle3d ]

\* C12, amended: the camera's pitch and bearing are those of is3D after any
\* sequence of toggle3D and flyToLocation calls; after at least one toggle3D
\* the label is '2D View' exactly when is3D; every toggle3D negates is3D,
\* so two in a row restore it, and they restore the label when it is not
\* the page's initial 'Toggle 3D'.
C12_ToggleConsistent ==
    /\ CameraFollowsIs3D
    /\ LabelFollowsIs3D
    /\ page = "campus-map"
       => /\ Toggle3DTwice(campusMap.is3D, dom.toggle3d).is3D = campusMap.is3D
          /\ dom.toggle3d # "Toggle 3D"
             => Toggle3DTwice(campusMap.is3D, dom.toggle3d).textContent
                  = dom.toggle3d

\* The 2D view after toggle3D calls, the camera flown to a building.
C12_Witness ==
    /\ page = "campus-map"
    /\ ~campusMap.is3D
    /\ dom.toggle3d = "3D View"
    /\ map.camera.center # CONFIG.defaultCenter
    /\ map.camera.zoom = 18
    /\ map.camera.pitch = 0

\* C13: after any sequence of changes of the 'toggle-accessibility'
\* checkbox the layer 'accessible-routes-layer' exists exactly when the
\* source 'accessible-routes' exists, both exist exactly when the checkbox
\* is checked, and showAccessibilityRoutes and hideAccessibilityRoutes are
\* each idempotent.
C13_AccessibilityFollowsCheckbox ==
    page = "campus-map"
    => /\ "accessible-routes-layer" \in map.layers
            <=> "accessible-routes" \in map.sources
       /\ "accessible-routes" \in map.sources <=> dom.toggleAccessibility
       /\ showAccessibilityRoutes(showAccessibilityRoutes(map))
            = showAccessibilityRoutes(map)
       /\ hideAccessibilityRoutes(hideAccessibilityRoutes(map))
            = hideAccessibilityRoutes(map)

-----------------------------------------------------------------------------
(* Claims about the markers of the medical campus page.                    *)

\* C14: when the 2000 ms timer that goToBuilding(id) started for the marker
\* of building id fires, that building's popup is open afterwards, whatever
\* its state before and however many goToBuilding calls came earlier.
C14_GoToBuildingShowsPopup ==
    [][ (page = "medical" /\ timers # <<>> /\ Head(timers).fn = "togglePopup"
         /\ timers' = Tail(timers))
        => medicalCampusMap'.markers[Head(timers).marker].popup ]_vars

\* markers holds one marker per building, in data order and carrying the
\* building, then one marker per landmark, carrying none.
MarkersAreCampusData ==
    LET ms == medicalCampusMap.markers
        bs == CAMPUS_DATA.buildings
        ls == CAMPUS_DATA.landmarks
    IN  /\ Len(ms) = Len(bs) + Len(ls)
        /\ \A i \in 1..Len(bs) :
             /\ ms[i].buildingData = bs[i]
             /\ ms[i].lngLat = bs[i].coordinates
        /\ \A i \in 1..Len(ls) :
             /\ ms[Len(bs) + i].buildingData = Null
             /\ ms[Len(bs) + i].lngLat = ls[i].coordinates

\* C17: before the map's 'load' event MedicalCampusMap.markers is empty;
\* from the event on it holds exactly one marker per CAMPUS_DATA building
\* in data order followed by one per landmark, so that no later operation
\* adds to it or removes from it.
C17_MarkersLoadedOnce ==
    page = "medical"
    => IF map.loaded THEN MarkersAreCampusData
       ELSE medicalCampusMap.markers = <<>>

\* The loaded map after toggleLabels, a popup opened by goToBuilding and a
\* position fix.
C17_Witness ==
    /\ page = "medical"
    /\ map.loaded
    /\ Len(medicalCampusMap.markers) = 3
    /\ ~medicalCampusMap.labelsVisible
    /\ medicalCampusMap.markers[2].popup
    /\ medicalCampusMap.markers[3].display = "none"
    /\ medicalCampusMap.userMarker # Null
    /\ timers = <<>>

-----------------------------------------------------------------------------
(* Claims about the user marker.                                           *)

\* C15: from the return of stopLocationTracking until the next
\* startLocationTracking (the 'toggle-tracking' checkbox is unchecked in
\* between) no position watch is registered and no user marker is on the
\* map, whichever geolocation callbacks are still pending.
C15_StopTrackingEffective ==
    (page = "campus-map" /\ ~dom.toggleTracking)
    => /\ geolocation.watches = {}
       /\ campusMap.userMarker = Null
       /\ map.userMarkers = 0

\* One user marker at most, the one userMarker refers to, at userLocation.
OneUserMarker(app) ==
    /\ map.userMarkers <= 1
    /\ map.userMarkers = 1 <=> app.userMarker # Null
    /\ app.userMarker # Null => app.userMarker = app.userLocation

\* C16: in every reachable state of either page at most one user-location
\* marker is on the map, it is the marker userMarker refers to, and it
\* stands at the current userLocation.
C16_OneUserMarker ==
    /\ page = "campus-map" => OneUserMarker(campusMap)
    /\ page = "medical" => OneUserMarker(medicalCampusMap)

\* A watch of the medical page is delivering positions and the user marker
\* stands at the second position, the one the tracking panel shows.
C16_Witness ==
    /\ page = "medical"
    /\ geolocation.watches # {}
    /\ map.userMarkers = 1
    /\ medicalCampusMap.userMarker = <<805742, 61147>>
    /\ map.camera.center = <<805730, 61160>>
    /\ dom.trackingInfo.location = medicalCampusMap.userLocation

-----------------------------------------------------------------------------
(* Claims about the floating controls of the medical campus page.          *)

\* The pitch and the '3d-buildings' visibility toggle3DBuildings gives a flag.
ViewOf3DEnabled(is3DEnabled) ==
    IF is3DEnabled THEN <<45, "visible">> ELSE <<0, "none">>

\* The pitch and the '3d-buildings' visibility of a map.
ViewOfMap(m) == <<m.camera.pitch, m.visibility>>

\* toggle3DBuildings() called twice in a row.
Toggle3DBuildingsTwice(app, m) ==
    LET once == toggle3DBuildings(app, m)
    IN  toggle3DBuildings(once.app, once.map)

\* A step that flips is3DEnabled while the '3d-buildings' layer exists sets
\* the pitch and the visibility of the new flag, and no step that flips it
\* changes labelsVisible, markers or userLocation.
Toggle3DBuildingsApplies ==
    [][ (page = "medical"
         /\ medicalCampusMap'.is3DEnabled # medicalCampusMap.is3DEnabled)
        => /\ "3d-buildings" \in map.layers
              => ViewOfMap(map') =
                   ViewOf3DEnabled(medicalCampusMap'.is3DEnabled)
           /\ medicalCampusMap'.labelsVisible = medicalCampusMap.labelsVisible
           /\ medicalCampusMap'.markers = medicalCampusMap.markers
           /\ medicalCampusMap'.userLocation = medicalCampusMap.userLocation
       ]_vars

\* C18 as stated: toggle3DBuildings applies the flipped flag and leaves the
\* rest alone, and, once the layer exists, two calls in a row restore
\* is3DEnabled, the pitch and the layer's visibility.
C18_TwoTogglesRestoreView ==
    /\ Toggle3DBuildingsApplies
    /\ [](page = "medical" /\ "3d-buildings" \in map.layers
          => LET twice == Toggle3DBuildingsTwice(medicalCampusMap, map)
             IN  /\ twice.app.is3DEnabled = medicalCampusMap.is3DEnabled
                 /\ ViewOfMap(twice.map) = ViewOfMap(map))

\* C18, amended: toggle3DBuildings applies the flipped flag and leaves
\* labelsVisible, markers and userLocation alone; once the layer exists, two
\* calls in a row restore is3DEnabled and leave the pitch and visibility of
\* that flag, which are the earlier ones only if those agreed with it.
C18_ToggleAppliesFlag ==
    /\ Toggle3DBuildingsApplies
    /\ [](page = "medical" /\ "3d-buildings" \in map.layers
          => LET twice == Toggle3DBuildingsTwice(medicalCampusMap, map)
             IN  /\ twice.app.is3DEnabled = medicalCampusMap.is3DEnabled
                 /\ ViewOfMap(twice.map) =
                      ViewOf3DEnabled(medicalCampusMap.is3DEnabled)
                 /\ twice.app = medicalCampusMap
                 /\ ViewOfMap(map) =
                        ViewOf3DEnabled(medicalCampusMap.is3DEnabled)
                    => twice.map = map)

\* The flat view after toggle3DBuildings on the loaded map, labels hidden
\* and a user location known.
C18_Witness ==
    /\ page = "medical"
    /\ "3d-buildings" \in map.layers
    /\ ~medicalCampusMap.is3DEnabled
    /\ ViewOfMap(map) = <<0, "none">>
    /\ ~medicalCampusMap.labelsVisible
    /\ medicalCampusMap.userLocation # Null

-----------------------------------------------------------------------------
(* Claims about clearing the route and about the building list.            *)

\* No route artifact is left: no 'route' layer or source, no route marker
\* on the map or in routeMarkers, the route-info panel hidden.
RouteCleared ==
    /\ "route" \notin map.layers
    /\ "route" \notin map.sources
    /\ map.route = Null
    /\ map.routeMarkers = 0
    /\ campusMapApp.routeMarkers.markers = <<>>
    /\ dom.routeInfo.hidden

\* C19: clearRoute leaves no route artifact, and where none is left (after
\* an earlier clearRoute, or with no route ever displayed) clearRoute
\* changes nothing.
C19_ClearRouteIdempotent ==
    /\ [][ClearRoute => RouteCleared']_vars
    /\ []((page = "medical" /\ RouteCleared)
          => /\ ENABLED ClearRoute
             /\ clearRouteMap = map
             /\ clearRouteMarkers = campusMapApp.routeMarkers)

\* A displayed route has been cleared while another request is in flight.
C19_Witness ==
    /\ page = "medical"
    /\ RouteCleared
    /\ campusMapApp.routeMarkers.defined
    /\ map.camera.fitted # Null
    /\ fetches # <<>>

\* text contains query, letter case ignored.
ContainsIgnoringCase(text, query) ==
    includes(toLowerCase(text), toLowerCase(query))

\* The building passes the category filter and the search filter.
PassesFilters(b, category, query) ==
    /\ category = "all" \/ b.category = category
    /\ \/ query = <<>>
       \/ ContainsIgnoringCase(b.name, query)
       \/ ContainsIgnoringCase(b.description, query)
       \/ ContainsIgnoringCase(b.number, query)

\* The position of a building id in CAMPUS_DATA.buildings.
DataIndex(id) ==
    CHOOSE k \in 1..Len(CAMPUS_DATA.buildings) :
        CAMPUS_DATA.buildings[k].id = id

\* list holds the ids of exactly the buildings that pass, in data order.
ListsExactly(list, category, query) ==
    /\ Range(list) = { b.id : b \in { c \in Range(CAMPUS_DATA.buildings) :
                                        PassesFilters(c, category, query) } }
    /\ \A i, j \in 1..Len(list) :
         i < j => DataIndex(list[i]) < DataIndex(list[j])

-----------------------------------------------------------------------------
(* Claims about location tracking of CampusMapApp.                         *)

\* C21: trackingEnabled turns true only in the success callback of
\* startTracking's position request; while it is true a watch is
\* registered whose id is in watchId; and the 'track-location-btn' button
\* reads 'Disable GPS Tracking' exactly when trackingEnabled is true.
C21_TrackingFlagAgrees ==
    /\ [][(page = "medical" /\ ~medicalCampusMap.trackingEnabled
           /\ medicalCampusMap'.trackingEnabled) => GeoSuccess]_vars
    /\ [](page = "medical" /\ medicalCampusMap.trackingEnabled
          => /\ medicalCampusMap.watchId # 0
             /\ medicalCampusMap.watchId \in geolocation.watches)
    /\ [](page = "medical"
          => (dom.trackBtn = "Disable GPS Tracking"
                <=> medicalCampusMap.trackingEnabled))

\* Tracking is on for the second time: stopped once, started again, the
\* second watch registered and the button reading 'Disable GPS Tracking'.
C21_Witness ==
    /\ page = "medical"
    /\ medicalCampusMap.trackingEnabled
    /\ medicalCampusMap.watchId = 2
    /\ geolocation.watches = {2}
    /\ dom.trackBtn = "Disable GPS Tracking"

-----------------------------------------------------------------------------
(* Claims about building ids that no building carries.                     *)

\* The id matches no building of CAMPUS_DATA.
UnknownId(id) == FindById(CAMPUS_DATA.buildings, id) = Null

\* Nothing a user could see of the medical page changes: camera, markers
\* and their popups, dropdowns, share link and modal, pending popup timers.
PageUntouched ==
    /\ map' = map
    /\ medicalCampusMap' = medicalCampusMap
    /\ dom' = dom
    /\ directions' = directions
    /\ \A i \in 1..Len(timers') : timers'[i] \in Range(timers)

\* C22: called with an id that matches no building, CampusMapApp's
\* goToBuilding, navigateToBuilding and shareBuilding and CampusMap3D's
\* navigateToBuilding issue no camera command, open no popup or modal, set
\* no directions endpoint and leave the dropdowns and the share link alone.
C22_UnknownIdNoOp ==
    /\ [][\A id \in CallIds :
            (UnknownId(id) /\ (navigateToBuilding(id) \/ shareBuilding(id)))
            => PageUntouched /\ timers' = timers]_vars
    /\ [][(UrlGoToBuilding /\ UnknownId(Head(timers).arg))
            => PageUntouched /\ timers' = Tail(timers)]_vars
    /\ [][(NavigateToBuilding3D /\ call'.value = Null)
            => /\ map' = map
               /\ dom' = dom
               /\ campusMap' = campusMap
               /\ directions' = directions]_vars

\* The page opened with '?building=7' after its timer has fired: the camera
\* is where the map was created, no popup is open, nothing is scheduled.
C22_Witness ==
    /\ page = "medical"
    /\ location = << <<"building", <<"7">>>> >>
    /\ timers = <<>>
    /\ map.loaded
    /\ map.camera = NewMap.camera
    /\ \A i \in 1..Len(medicalCampusMap.markers) :
         ~medicalCampusMap.markers[i].popup
    /\ dom.shareLink = <<>>
    /\ dom.endLocation = <<>>

-----------------------------------------------------------------------------
(* Claims about requests for directions.                                   *)

\* C23: a calculateRoute call that has shown the loading indicator hides
\* it: the call that stops for want of a user location hides it at once,
\* and a request in flight leaves it hidden when it settles, with a route,
\* without one, rejected or with displayRoute throwing; while a request is
\* in flight the indicator is always hidden later.
C23_RouteLoadingHidden ==
    /\ [][(page = "medical" /\ Len(fetches') < Len(fetches))
            => dom'.loading.hidden]_vars
    /\ [][(CalculateRoute /\ fetches' = fetches) =>
            (dom'.loading.hidden \/ dom'.loading = dom.loading)]_vars
    /\ (page = "medical" /\ fetches # <<>>) ~> dom.loading.hidden

\* A request settled with displayRoute throwing on the map that has not
\* loaded: the failure is reported and the indicator hidden.
C23_Witness ==
    /\ page = "medical"
    /\ ~map.loaded
    /\ fetches = <<>>
    /\ console = "Error calculating route:"
    /\ dom.loading.hidden

-----------------------------------------------------------------------------
(* Claims about the floating controls and the 'load' event.                *)

\* C24: whenever the '3d-buildings' layer exists its visibility is
\* 'visible' exactly when is3DEnabled is true, for every ordering of the
\* 'load' event and the clicks on the toggle-3D button.
C24_LayerFollowsIs3DEnabled ==
    (page = "medical" /\ "3d-buildings" \in map.layers)
        => (map.visibility = "visible" <=> medicalCampusMap.is3DEnabled)

\* A marker element is displayed unless its style.display is 'none'.
Displayed(marker) == marker.display # "none"

\* C25: every marker of MedicalCampusMap.markers is displayed exactly when
\* labelsVisible is true, for every ordering of toggleLabels and the 'load'
\* event, and toggleLabels leaves the route markers and the user marker
\* alone.
C25_MarkersFollowLabelsVisible ==
    /\ [](page = "medical" =>
            \A i \in 1..Len(medicalCampusMap.markers) :
               Displayed(medicalCampusMap.markers[i])
                   <=> medicalCampusMap.labelsVisible)
    /\ [][ToggleLabels =>
            /\ map' = map
            /\ campusMapApp' = campusMapApp
            /\ medicalCampusMap'.userMarker = medicalCampusMap.userMarker]_vars

-----------------------------------------------------------------------------
(* Claims about the position watch of CampusMapApp.                        *)

\* C26: at most one position watch is registered at any time, and once
\* tracking is stopped, with no start waiting for its first position, no
\* callback changes userLocation, the user marker or the tracking-info
\* panel until the button starts tracking again.
C26_OneWatchStopEndsUpdates ==
    /\ [](page = "medical" => Cardinality(geolocation.watches) <= 1)
    /\ [][(/\ page = "medical"
           /\ ~medicalCampusMap.trackingEnabled
           /\ geolocation.pending = 0
           /\ ~ToggleTracking)
            => /\ medicalCampusMap'.userLocation = medicalCampusMap.userLocation
               /\ medicalCampusMap'.userMarker = medicalCampusMap.userMarker
               /\ map'.userMarkers = map.userMarkers
               /\ dom'.trackingInfo = dom.trackingInfo]_vars

-----------------------------------------------------------------------------
(* Claims about concurrent requests for directions.                        *)

\* C27: while the route-info panel is shown, the mode it names is the
\* transport mode the displayed route was fetched with, however
\* switchTransportMode interleaves with a request in flight or follows the
\* display.
C27_PanelModeIsFetchedMode ==
    (page = "medical" /\ ~dom.routeInfo.hidden /\ map.route # Null)
        => dom.routeInfo.mode = map.route.profile

\* C28: once no request for directions is in flight, the map shows no route
\* if clearRoute was the last of the calls made for the route, and a route
\* it shows is the one of the calculateRoute request issued last, in
\* whatever order the responses arrive.
C28_LatestActionWins ==
    (page = "medical" /\ fetches = <<>> /\ call # Null) =>
        /\ call.fn = "clearRoute"
             => (map.route = Null /\ "route" \notin map.layers)
        /\ (call.fn = "calculateRoute" /\ map.route # Null)
             => map.route = call.value

-----------------------------------------------------------------------------
(* Claims about what accumulates on the map.                               *)

\* C29: the shared-location markers on the map are as many as the entries
\* of sharedLocations, each marker being the value stored under its code,
\* after any number of shareLocation calls.
C29_SharedMarkersAreEntries ==
    page = "campus-map"
        => map.sharedMarkers = Cardinality(campusMap.sharedLocations)

\* C30: however calculateRoute requests in flight and clearRoute interleave,
\* the 'route' layer exists only with the 'route' source, at most two route
\* markers are on the map, and the route markers on the map are exactly
\* those held in routeMarkers: the start and the end of the displayed
\* route, and none when no route is displayed.
C30_RouteArtifactsBounded ==
    page = "medical" =>
        /\ ("route" \in map.layers) => ("route" \in map.sources)
        /\ map.routeMarkers <= 2
        /\ map.routeMarkers = Len(campusMapApp.routeMarkers.markers)
        /\ campusMapApp.routeMarkers.markers =
               IF map.route = Null THEN <<>>
               ELSE << map.route.start, map.route.end >>
        /\ (map.route # Null) <=> ("route" \in map.layers)

\* A route displayed while a request from another start is still in
\* flight: two route markers, those of the route on the map.
C30_Witness ==
    /\ page = "medical"
    /\ Len(fetches) = 1
    /\ map.route # Null
    /\ fetches[1].start # map.route.start
    /\ map.routeMarkers = 2
    /\ campusMapApp.routeMarkers.markers = << map.route.start, map.route.end >>

====
